---- MODULE Spec2Model ----
(***************************************************************************)
(* Model of the Lucjan boiler controller client (api.py): the config.txt   *)
(* text helpers, the read-modify-upload-reload sequence of                 *)
(* async_set_config_param, the async_set_co_circuit choreography and the   *)
(* one-shot commands, run by concurrent tasks of one event loop against    *)
(* one device.                                                             *)
(*                                                                         *)
(* A text is a sequence of symbols.  A symbol is one of the characters the *)
(* code looks at (" ", "\t", "\n", "\r", "=", "#") or a word: a run of     *)
(* other characters that the code never looks into (a key, a value).       *)
(***************************************************************************)
EXTENDS Integers, Sequences, FiniteSets, TLC

VARIABLES
    file,       \* the device's config.txt
    pc,         \* per task: where the task is suspended
    op,         \* per task: the client operation the task runs
    param,      \* per task: key of the set_config_param call in progress
    value,      \* per task: value of the set_config_param call in progress
    enabled,    \* per task: argument of async_set_co_circuit
    cstep,      \* per task: step of async_set_co_circuit (0: not in it)
    fetched,    \* per task: raw_config of the set_config_param call
    upload,     \* per task: new_config of the set_config_param call
    ret,        \* per task: what the operation gave its caller
    reqs,       \* per task: HTTP requests of the set_config_param call
    writes,     \* per task: set_config_param calls of async_set_co_circuit
    before,     \* per task: the device file when the operation started
    overlapped, \* a config write started while another was in flight
    uploaders,  \* tasks whose upload the device has stored
    t_pc,       \* text harness: "off", "input", "replaced", "parsed"
    t_text,     \* text harness: config_text
    t_param,    \* text harness: param
    t_value,    \* text harness: new_value
    t_new,      \* text harness: _replace_config_param(t_text, t_param, t_value)
    t_cfg,      \* text harness: <<_parse_config(t_text), _parse_config(t_new)>>
    thermos,    \* the device's status mapping (thermos.json)
    flow_pc,    \* config flow: "form", "testing", "created", "aborted"
    flow_out,   \* config flow: how the test connection's request ended
    flow_errors,    \* config flow: errors["base"] of the form shown
    flow_entry, \* a config entry exists for the host
    setup_pc,   \* async_setup_entry: "none", "first_refresh", "forward",
                \* "ready", "failed"
    runtime_data,   \* entry.runtime_data holds the coordinator
    platforms,  \* the entity platforms are set up
    poll_pc,    \* _async_update_data: "idle", "thermos", "config"
    poll_thermos,   \* the cycle's thermos
    poll_config,    \* the cycle's config
    poll_reqs,  \* the cycle's requests, with what each raised
    poll_res,   \* how the last cycle ended: "none", "ok", "UpdateFailed: ..."
    data,       \* coordinator.data, the current snapshot
    prev,       \* coordinator.data when the cycle started
    h_pc,       \* request harness: "off", "call", "done"
    h_op,       \* request harness: the client method called
    h_out,      \* request harness: how the HTTP request ends
    h_body,     \* request harness: the response body can be read
    h_res,      \* request harness: "returned" or the exception raised
    d_pc,       \* snapshot harness: "off", "input", "built", "raised", "read"
    d_thermos,  \* snapshot harness: the raw status mapping
    d_config,   \* snapshot harness: the config mapping
    d_data,     \* snapshot harness: LucjanData(d_thermos, d_config)
    d_view,     \* snapshot harness: the derived properties of d_data
    e_pc,       \* per call: "idle", "command", "sleep", "done", "raised"
    e_ent,      \* per call: the entity the service call is for
    e_target,   \* per call: the value the call sets
    e_res,      \* per call: what the client gave: "True", "False", "raised"
    e_opt,      \* per entity: _optimistic_state / _optimistic_value
    e_shown,    \* per entity: the state last written to the state machine
    e_snap,     \* per entity: what the entity reads in coordinator.data
    e_dev,      \* per entity: the value the device holds
    e_cmds,     \* the device commands issued
    e_refresh,  \* the calls that requested a refresh
    e_timer,    \* per call: seconds of asyncio.sleep(COMMAND_DELAY) left
    a_pc,       \* entity action: "idle", "client", "sleep", "refresh",
                \* "polling", "done", "raised"
    a_ent,      \* entity action: the entity the action is on
    a_value,    \* entity action: the value the action sets
    a_calls,    \* entity action: the client calls made, with their results
    a_scp,      \* entity action: where async_set_config_param is
    a_upload,   \* entity action: new_config of async_set_config_param
    a_opt,      \* entity action: the optimistic override of the entity
    a_trace,    \* entity action: what the method did after the client calls
    a_run       \* the runtime variables of the device (/setNAME=VALUE)

clientVars == <<file, pc, op, param, value, enabled, cstep, fetched, upload,
                ret, reqs, writes, before, overlapped, uploaders>>
textVars == <<t_pc, t_text, t_param, t_value, t_new, t_cfg>>
pollVars == <<thermos, flow_pc, flow_out, flow_errors, flow_entry, setup_pc,
              runtime_data, platforms, poll_pc, poll_thermos, poll_config,
              poll_reqs, poll_res, data, prev>>
httpVars == <<h_pc, h_op, h_out, h_body, h_res>>
dataVars == <<d_pc, d_thermos, d_config, d_data, d_view>>
entVars == <<e_pc, e_ent, e_target, e_res, e_opt, e_shown, e_snap, e_dev,
             e_cmds, e_refresh, e_timer>>
actVars == <<a_pc, a_ent, a_value, a_calls, a_scp, a_upload, a_opt, a_trace,
             a_run>>
vars == <<file, pc, op, param, value, enabled, cstep, fetched, upload,
          ret, reqs, writes, before, overlapped, uploaders,
          t_pc, t_text, t_param, t_value, t_new, t_cfg,
          thermos, flow_pc, flow_out, flow_errors, flow_entry, setup_pc,
          runtime_data, platforms, poll_pc, poll_thermos, poll_config,
          poll_reqs, poll_res, data, prev,
          h_pc, h_op, h_out, h_body, h_res,
          d_pc, d_thermos, d_config, d_data, d_view,
          e_pc, e_ent, e_target, e_res, e_opt, e_shown, e_snap, e_dev,
          e_cmds, e_refresh, e_timer,
          a_pc, a_ent, a_value, a_calls, a_scp, a_upload, a_opt, a_trace,
          a_run>>

(***************************************************************************)
(* Python's str operations, on sequences of symbols.                       *)
(***************************************************************************)

\* str.strip() with no argument strips these
Whitespace == {" ", "\t", "\n", "\r"}

\* str.splitlines() breaks a text at these ("\r\n" counts as one break)
LineBreaks == {"\n", "\r"}

\* None, as returned by _replace_config_param: no text holds this symbol
None == <<"<None>">>

\* None where a mapping or a snapshot is expected (coordinator.data before
\* the first refresh)
NoData == [none |-> TRUE]

RECURSIVE lstrip(_)
lstrip(s) ==
    IF s # <<>> /\ Head(s) \in Whitespace THEN lstrip(Tail(s)) ELSE s

RECURSIVE rstrip(_)
rstrip(s) ==
    IF s # <<>> /\ s[Len(s)] \in Whitespace
    THEN rstrip(SubSeq(s, 1, Len(s) - 1))
    ELSE s

strip(s) == rstrip(lstrip(s))

\* s.startswith(c), c one symbol
startswith(s, c) == s # <<>> /\ Head(s) = c

\* c in s, c one symbol
HasSym(c, s) == \E i \in 1..Len(s) : s[i] = c

\* s.index(c): position (from 1) of the first c in s, 0 when there is none
IndexOf(c, s) ==
    IF HasSym(c, s)
    THEN CHOOSE i \in 1..Len(s) : s[i] = c /\ \A j \in 1..(i - 1) : s[j] # c
    ELSE 0

\* sub in s, sub a sequence of symbols
Contains(sub, s) ==
    \E i \in 1..(Len(s) - Len(sub) + 1) : SubSeq(s, i, i + Len(sub) - 1) = sub

\* s.partition(c): <<head, sep, tail>> around the first c
partition(s, c) ==
    LET i == IndexOf(c, s)
    IN  IF i = 0
        THEN <<s, <<>>, <<>>>>
        ELSE <<SubSeq(s, 1, i - 1), <<c>>, SubSeq(s, i + 1, Len(s))>>

\* position of the first line break of s, 0 when there is none
FirstBreak(s) ==
    IF \E i \in 1..Len(s) : s[i] \in LineBreaks
    THEN CHOOSE i \in 1..Len(s) :
            s[i] \in LineBreaks /\ \A j \in 1..(i - 1) : s[j] \notin LineBreaks
    ELSE 0

\* s.splitlines(): the lines of s without their line breaks
RECURSIVE splitlines(_)
splitlines(s) ==
    IF s = <<>> THEN <<>>
    ELSE LET b == FirstBreak(s)
         IN  IF b = 0 THEN <<s>>
             ELSE LET n == IF s[b] = "\r" /\ b < Len(s) /\ s[b + 1] = "\n"
                           THEN 2 ELSE 1
                  IN  <<SubSeq(s, 1, b - 1)>>
                          \o splitlines(SubSeq(s, b + n, Len(s)))

\* "\n".join(lines)
RECURSIVE join(_)
join(lines) ==
    IF lines = <<>> THEN <<>>
    ELSE IF Len(lines) = 1 THEN lines[1]
    ELSE lines[1] \o <<"\n">> \o join(Tail(lines))

(***************************************************************************)
(* LucjanApi._replace_config_param and LucjanApi._parse_config             *)
(***************************************************************************)

\* the test of the loop body: a non-comment key=value line for param
IsParamLine(line, p) ==
    LET stripped == strip(line)
    IN  /\ ~startswith(stripped, "#")
        /\ HasSym("=", stripped)
        /\ strip(partition(stripped, "=")[1]) = p

\* NewLine that writes the value alone, without the key
NewLine_ValueOnly(line, p, new_value) == new_value

\* the line written in place of the found one
NewLine(line, p, new_value) ==
    IF Contains(<<" ", "=", " ">>, line)
    THEN p \o <<" ", "=", " ">> \o new_value
    ELSE p \o <<"=">> \o new_value

_replace_config_param(config_text, p, new_value) ==
    LET lines == splitlines(config_text)
        hits == {i \in 1..Len(lines) : IsParamLine(lines[i], p)}
    IN  IF hits = {}
        THEN None
        ELSE LET i == CHOOSE h \in hits : \A g \in hits : h <= g
             IN  join([lines EXCEPT ![i] = NewLine(lines[i], p, new_value)])
                     \o <<"\n">>

\* DictSet that keeps the value a key already has
DictSet_KeepFirst(config, key, val) ==
    IF key \in DOMAIN config THEN config
    ELSE [k \in (DOMAIN config) \cup {key} |-> IF k = key THEN val ELSE config[k]]

\* config[key] = value
DictSet(config, key, val) ==
    [k \in (DOMAIN config) \cup {key} |-> IF k = key THEN val ELSE config[k]]

\* ParseLine that leaves an inline comment in the value
ParseLine_NoTruncate(config, rawline) ==
    LET line == strip(rawline)
    IN  IF line = <<>> \/ startswith(line, "#") THEN config
        ELSE IF ~HasSym("=", line) THEN config
        ELSE LET parts == partition(line, "=")
                 key == strip(parts[1])
                 val == strip(parts[3])
             IN  IF key # <<>> /\ ~startswith(key, "#")
                 THEN [k \in (DOMAIN config) \cup {key} |->
                          IF k = key THEN val ELSE config[k]]
                 ELSE config

\* one pass of the loop body of _parse_config
ParseLine(config, rawline) ==
    LET line == strip(rawline)
    IN  IF line = <<>> \/ startswith(line, "#") THEN config
        ELSE IF ~HasSym("=", line) THEN config
        ELSE LET parts == partition(line, "=")
                 key == strip(parts[1])
                 v1 == strip(parts[3])
                 val == IF HasSym("#", v1)
                        THEN strip(SubSeq(v1, 1, IndexOf("#", v1) - 1))
                        ELSE v1
             IN  IF key # <<>> /\ ~startswith(key, "#")
                 THEN DictSet(config, key, val)
                 ELSE config

RECURSIVE ParseLines(_, _)
ParseLines(config, lines) ==
    IF lines = <<>> THEN config
    ELSE ParseLines(ParseLine(config, Head(lines)), Tail(lines))

_parse_config(text) == ParseLines(<<>>, splitlines(text))

\* dict.get(key, default)
DictGet(config, key, default) ==
    IF key \in DOMAIN config THEN config[key] ELSE default

(***************************************************************************)
(* The device and the HTTP layer (LucjanApi._get, LucjanApi._put)          *)
(***************************************************************************)

\* invocations of the client in flight on the event loop; each task is one
\* call of one operation
NumTasks == 2

Tasks == 1..NumTasks

\* the task that calls async_set_co_circuit
CoTask == 1

\* how a request can end: the response's status, or no response
Outcomes == {"200", "401", "500", "timeout", "client_error"}

\* Raised without the test for status 401: a 401 is one more non-200
Raised_No401(o) ==
    CASE o = "200" -> "none"
      [] o = "timeout" -> "LucjanConnectionError"
      [] o = "client_error" -> "LucjanConnectionError"
      [] OTHER -> "LucjanApiError"

\* what _get and _put raise for an outcome ("none": the response is returned)
Raised(o) ==
    CASE o = "200" -> "none"
      [] o = "401" -> "LucjanAuthError"
      [] o = "timeout" -> "LucjanConnectionError"
      [] o = "client_error" -> "LucjanConnectionError"
      [] OTHER -> "LucjanApiError"

\* the exception classes: LucjanConnectionError and LucjanAuthError derive
\* from LucjanApiError
IsLucjanApiError(e) ==
    e \in {"LucjanApiError", "LucjanConnectionError", "LucjanAuthError"}

\* except LucjanApiError: ... return False; any other exception propagates
Except(e) == IF IsLucjanApiError(e) THEN "False" ELSE e

\* async_get_config_raw: _get, then response.text() outside _get's try:
\* a body that cannot be read raises aiohttp's error, not a LucjanApiError
GetConfigRaw(o, body_ok) ==
    IF Raised(o) # "none" THEN Raised(o)
    ELSE IF body_ok THEN "none"
    ELSE "ClientPayloadError"

\* what reading the body of a 200 response raises when it cannot be read
\* or decoded: response.json() and response.text() are awaited outside
\* _get's try, so it is not a LucjanApiError
BodyError(method) ==
    IF method = "async_get_thermos" THEN "JSONDecodeError"
    ELSE "ClientPayloadError"

\* async_get_thermos: _get, then response.json(content_type=None)
GetThermos(o, body_ok) ==
    IF Raised(o) # "none" THEN Raised(o)
    ELSE IF body_ok THEN "none"
    ELSE BodyError("async_get_thermos")

\* async_get_config: _get, then response.text(), then _parse_config
GetConfig(o, body_ok) ==
    IF Raised(o) # "none" THEN Raised(o)
    ELSE IF body_ok THEN "none"
    ELSE BodyError("async_get_config")

\* config.txt of the device when the client starts
File_A ==
    << "#", " ", "Lucjan", "\n",
       "PIEC_TRYB", " ", "=", " ", "AUTO", "\n",
       "CO_TRYB", "=", "ZIMA", " ", "#", " ", "note", "\n",
       "CWU_PRIORYTET", "=", "WYLACZ", "\n" >>

\* a config.txt that names CO_TRYB twice and has no CWU_PRIORYTET
File_B ==
    << "PIEC_TRYB", "=", "AUTO", "\n",
       "CO_TRYB", "=", "LATO", "\n",
       "CO_TRYB", "=", "ZIMA", "\n" >>

InitialFiles == {File_A, File_B}

\* the (param, value) pairs the entities pass to async_set_config_param
ConfigWrites ==
    { << <<"PIEC_TRYB">>, <<"AUTO">> >>,
      << <<"PIEC_TRYB">>, <<"RECZNY">> >>,
      << <<"CWU_PRIORYTET">>, <<"WLACZ">> >>,
      << <<"CWU_TRYB">>, <<"WLACZ">> >> }

\* the operations that are one GET: /set{name}={value} and the system commands
Commands ==
    {"set_variable", "alarm_reset", "config_reload", "hopper_full",
     "reset_controller"}

(***************************************************************************)
(* LucjanApi.async_set_config_param                                        *)
(***************************************************************************)

\* AfterReplace without the "not found" check: whatever came back is uploaded
AfterReplace_NoCheck(new_config) == "put"

\* after _replace_config_param: None is "not found", return False
AfterReplace(new_config) == IF new_config = None THEN "False" ELSE "put"

\* AfterFetch that returns True without the upload and the reload
AfterFetch_NoUpload(e, new_config) ==
    IF e = "none" THEN (IF new_config = None THEN "False" ELSE "True")
    ELSE Except(e)

\* after async_get_config_raw
AfterFetch(e, new_config) ==
    IF e = "none" THEN AfterReplace(new_config) ELSE Except(e)

\* AfterPut that goes on to the reload whatever the upload did
AfterPut_NoAbort(e) == "reload"

\* after _put("/upload/config.txt", ...)
AfterPut(e) == IF e = "none" THEN "reload" ELSE Except(e)

\* after _get("/configreload")
AfterReload(e) == IF e = "none" THEN "True" ELSE Except(e)

(***************************************************************************)
(* LucjanApi.async_set_co_circuit (the second definition, the one the      *)
(* class keeps)                                                            *)
(***************************************************************************)

\* the arguments of the set_config_param call of a step; step 4 is the
\* call of the except branch
CoStepArgs(step, en) ==
    CASE step = 1 -> << <<"PIEC_TRYB">>, <<"RECZNY">> >>
      [] step = 2 -> << <<"CO_TRYB">>, IF en THEN <<"ZIMA">> ELSE <<"ZIM">> >>
      [] OTHER -> << <<"PIEC_TRYB">>, <<"AUTO">> >>

\* what follows the set_config_param call of a step that gave r: its
\* boolean result is dropped; only a raised LucjanApiError reaches the
\* except branch
CoAfter(step, r) ==
    IF step \in 1..3
    THEN IF r \in {"True", "False"}
         THEN IF step < 3
              THEN [kind |-> "step", step |-> step + 1, val |-> "none"]
              ELSE [kind |-> "return", step |-> 0, val |-> "True"]
         ELSE IF IsLucjanApiError(r)
              THEN [kind |-> "step", step |-> 4, val |-> "none"]
              ELSE [kind |-> "return", step |-> 0, val |-> r]
    ELSE IF r \in {"True", "False"} \/ IsLucjanApiError(r)
         THEN [kind |-> "return", step |-> 0, val |-> "False"]
         ELSE [kind |-> "return", step |-> 0, val |-> r]

(***************************************************************************)
(* The tasks                                                               *)
(***************************************************************************)

ClientIdle ==
    /\ pc = [t \in Tasks |-> "idle"]
    /\ op = [t \in Tasks |-> "none"]
    /\ param = [t \in Tasks |-> <<>>]
    /\ value = [t \in Tasks |-> <<>>]
    /\ enabled = [t \in Tasks |-> FALSE]
    /\ cstep = [t \in Tasks |-> 0]
    /\ fetched = [t \in Tasks |-> None]
    /\ upload = [t \in Tasks |-> None]
    /\ ret = [t \in Tasks |-> "none"]
    /\ reqs = [t \in Tasks |-> <<>>]
    /\ writes = [t \in Tasks |-> <<>>]
    /\ before = [t \in Tasks |-> <<>>]
    /\ overlapped = FALSE
    /\ uploaders = {}

TextOff ==
    /\ t_pc = "off"
    /\ t_text = <<>>
    /\ t_param = <<>>
    /\ t_value = <<>>
    /\ t_new = None
    /\ t_cfg = <<>>

\* no coordinator, no config flow
PollOff ==
    /\ thermos = <<>>
    /\ flow_pc = "off"
    /\ flow_out = "none"
    /\ flow_errors = "none"
    /\ flow_entry = FALSE
    /\ setup_pc = "off"
    /\ runtime_data = FALSE
    /\ platforms = FALSE
    /\ poll_pc = "off"
    /\ poll_thermos = NoData
    /\ poll_config = <<>>
    /\ poll_reqs = <<>>
    /\ poll_res = "none"
    /\ data = NoData
    /\ prev = NoData

HttpOff ==
    /\ h_pc = "off"
    /\ h_op = "none"
    /\ h_out = "none"
    /\ h_body = TRUE
    /\ h_res = "none"

\* no snapshot is being built
DataOff ==
    /\ d_pc = "off"
    /\ d_thermos = <<>>
    /\ d_config = <<>>
    /\ d_data = NoData
    /\ d_view = NoData

\* service calls in flight on the event loop, each a turn_on, a turn_off or
\* a select_option
NumCalls == 2
Calls == 1..NumCalls

\* switch_pump_co (switch.py) and select_co_tryb (select.py)
Entities == {"switch", "select"}

\* no entity, no service call
EntOff ==
    /\ e_pc = [c \in Calls |-> "off"]
    /\ e_ent = [c \in Calls |-> "none"]
    /\ e_target = [c \in Calls |-> "None"]
    /\ e_res = [c \in Calls |-> "none"]
    /\ e_opt = [e \in Entities |-> "None"]
    /\ e_shown = [e \in Entities |-> "None"]
    /\ e_snap = [e \in Entities |-> "None"]
    /\ e_dev = [e \in Entities |-> "None"]
    /\ e_cmds = {}
    /\ e_refresh = {}
    /\ e_timer = [c \in Calls |-> 0]

\* no entity action
ActOff ==
    /\ a_pc = "off"
    /\ a_ent = "none"
    /\ a_value = "None"
    /\ a_calls = <<>>
    /\ a_scp = "none"
    /\ a_upload = None
    /\ a_opt = "None"
    /\ a_trace = <<>>
    /\ a_run = <<>>

Init ==
    /\ file \in InitialFiles
    /\ ClientIdle
    /\ DataOff
    /\ EntOff
    /\ ActOff
    /\ TextOff
    /\ PollOff
    /\ HttpOff

CanStart(t) == pc[t] = "idle"

\* a task between the start and the end of its operation
InFlight(t) == pc[t] \notin {"idle", "done"}

\* what every start of an operation sets
Started(t, o) ==
    /\ op' = [op EXCEPT ![t] = o]
    /\ ret' = [ret EXCEPT ![t] = "none"]
    /\ reqs' = [reqs EXCEPT ![t] = <<>>]
    /\ fetched' = [fetched EXCEPT ![t] = None]
    /\ upload' = [upload EXCEPT ![t] = None]
    /\ before' = [before EXCEPT ![t] = file]
    /\ overlapped' = (overlapped \/ (o \notin Commands /\
           \E u \in Tasks : InFlight(u) /\ op[u] \notin Commands))
    /\ UNCHANGED <<file, uploaders, textVars, pollVars,
                   httpVars, dataVars, entVars, actVars>>

\* a task calls async_set_config_param(param, value)
StartConfigParam(t) ==
    /\ CanStart(t)
    /\ \E w \in ConfigWrites :
         /\ param' = [param EXCEPT ![t] = w[1]]
         /\ value' = [value EXCEPT ![t] = w[2]]
    /\ pc' = [pc EXCEPT ![t] = "scp_fetch"]
    /\ cstep' = [cstep EXCEPT ![t] = 0]
    /\ writes' = [writes EXCEPT ![t] = <<>>]
    /\ UNCHANGED enabled
    /\ Started(t, "set_config_param")

\* a task calls async_set_co_circuit(enabled): step 1 starts
StartCoCircuit(t) ==
    /\ CanStart(t)
    /\ \E en \in BOOLEAN :
         LET a == CoStepArgs(1, en)
         IN  /\ enabled' = [enabled EXCEPT ![t] = en]
             /\ param' = [param EXCEPT ![t] = a[1]]
             /\ value' = [value EXCEPT ![t] = a[2]]
             /\ writes' = [writes EXCEPT ![t] =
                    << [param |-> a[1], value |-> a[2], res |-> "pending"] >>]
    /\ pc' = [pc EXCEPT ![t] = "scp_fetch"]
    /\ cstep' = [cstep EXCEPT ![t] = 1]
    /\ Started(t, "set_co_circuit")

\* a task calls async_set_variable or a system command
StartCommand(t) ==
    /\ CanStart(t)
    /\ \E c \in Commands : Started(t, c)
    /\ pc' = [pc EXCEPT ![t] = "get"]
    /\ cstep' = [cstep EXCEPT ![t] = 0]
    /\ writes' = [writes EXCEPT ![t] = <<>>]
    /\ UNCHANGED <<param, value, enabled>>

\* the set_config_param call of task t ends with r (a result, or the
\* exception it lets through), its requests being rq and its raw_config ft
ScpEnd(t, r, rq, ft) ==
    LET inco == op[t] = "set_co_circuit"
        nxt == IF inco THEN CoAfter(cstep[t], r)
               ELSE [kind |-> "return", step |-> 0, val |-> r]
        wr == IF inco
              THEN [writes[t] EXCEPT ![Len(writes[t])].res = r]
              ELSE writes[t]
    IN  IF nxt.kind = "step"
        THEN LET a == CoStepArgs(nxt.step, enabled[t])
             IN  /\ pc' = [pc EXCEPT ![t] = "scp_fetch"]
                 /\ cstep' = [cstep EXCEPT ![t] = nxt.step]
                 /\ param' = [param EXCEPT ![t] = a[1]]
                 /\ value' = [value EXCEPT ![t] = a[2]]
                 /\ writes' = [writes EXCEPT ![t] = Append(wr,
                        [param |-> a[1], value |-> a[2], res |-> "pending"])]
                 /\ reqs' = [reqs EXCEPT ![t] = <<>>]
                 /\ fetched' = [fetched EXCEPT ![t] = None]
                 /\ upload' = [upload EXCEPT ![t] = None]
                 /\ UNCHANGED ret
        ELSE /\ pc' = [pc EXCEPT ![t] = "done"]
             /\ ret' = [ret EXCEPT ![t] = nxt.val]
             /\ writes' = [writes EXCEPT ![t] = wr]
             /\ reqs' = [reqs EXCEPT ![t] = rq]
             /\ fetched' = [fetched EXCEPT ![t] = ft]
             /\ UNCHANGED <<cstep, param, value, upload>>

\* raw_config = await self.async_get_config_raw(), then the replacement
ScpFetch(t) ==
    /\ pc[t] = "scp_fetch"
    /\ \E o \in Outcomes, body_ok \in BOOLEAN :
         LET e == GetConfigRaw(o, body_ok)
             new_config == _replace_config_param(file, param[t], value[t])
             nxt == AfterFetch(e, new_config)
             rq == Append(reqs[t], [req |-> "GET /config.txt", ok |-> e = "none"])
             ft == IF e = "none" THEN file ELSE None
         IN  IF nxt = "put"
             THEN /\ pc' = [pc EXCEPT ![t] = "scp_put"]
                  /\ reqs' = [reqs EXCEPT ![t] = rq]
                  /\ fetched' = [fetched EXCEPT ![t] = ft]
                  /\ upload' = [upload EXCEPT ![t] = new_config]
                  /\ UNCHANGED <<cstep, param, value, writes, ret>>
             ELSE ScpEnd(t, nxt, rq, ft)
    /\ UNCHANGED <<file, op, enabled, before, overlapped, uploaders, textVars, pollVars,
                   httpVars, dataVars, entVars, actVars>>

\* await self._put("/upload/config.txt", new_config.encode("utf-8")):
\* a 200 means the device stored the body as its config.txt
ScpPut(t) ==
    /\ pc[t] = "scp_put"
    /\ \E o \in Outcomes :
         LET e == Raised(o)
             nxt == AfterPut(e)
             rq == Append(reqs[t],
                          [req |-> "PUT /upload/config.txt", ok |-> e = "none"])
         IN  /\ IF e = "none"
                THEN /\ file' = upload[t]
                     /\ uploaders' = uploaders \cup {t}
                ELSE UNCHANGED <<file, uploaders>>
             /\ IF nxt = "reload"
                THEN /\ pc' = [pc EXCEPT ![t] = "scp_reload"]
                     /\ reqs' = [reqs EXCEPT ![t] = rq]
                     /\ UNCHANGED <<cstep, param, value, writes, ret,
                                    fetched, upload>>
                ELSE ScpEnd(t, nxt, rq, fetched[t])
    /\ UNCHANGED <<op, enabled, before, overlapped, textVars, pollVars,
                   httpVars, dataVars, entVars, actVars>>

\* await asyncio.sleep(0.5); await self._get("/configreload")
ScpReload(t) ==
    /\ pc[t] = "scp_reload"
    /\ \E o \in Outcomes :
         LET e == Raised(o)
             rq == Append(reqs[t], [req |-> "GET /configreload", ok |-> e = "none"])
         IN  ScpEnd(t, AfterReload(e), rq, fetched[t])
    /\ UNCHANGED <<file, op, enabled, before, overlapped, uploaders, textVars, pollVars,
                   httpVars, dataVars, entVars, actVars>>

\* async_set_variable and the system commands: one _get in a try
Command(t) ==
    /\ pc[t] = "get"
    /\ \E o \in Outcomes :
         LET e == Raised(o)
         IN  /\ ret' = [ret EXCEPT ![t] = IF e = "none" THEN "True" ELSE Except(e)]
             /\ reqs' = [reqs EXCEPT ![t] =
                    Append(@, [req |-> "GET command", ok |-> e = "none"])]
    /\ pc' = [pc EXCEPT ![t] = "done"]
    /\ UNCHANGED <<file, op, param, value, enabled, cstep, fetched, upload,
                   writes, before, overlapped, uploaders, textVars, pollVars,
                   httpVars, dataVars, entVars, actVars>>

\* concurrent calls of async_set_config_param and of the one-GET commands
Next ==
    \E t \in Tasks :
        \/ StartConfigParam(t)
        \/ StartCommand(t)
        \/ ScpFetch(t)
        \/ ScpPut(t)
        \/ ScpReload(t)
        \/ Command(t)

Spec == Init /\ [][Next]_vars

\* one call of async_set_co_circuit, with no other writer
NextCo ==
    \/ StartCoCircuit(CoTask)
    \/ ScpFetch(CoTask)
    \/ ScpPut(CoTask)
    \/ ScpReload(CoTask)

SpecCo == Init /\ [][NextCo]_vars

(***************************************************************************)
(* Text harness: _replace_config_param and _parse_config applied to the    *)
(* config texts built from a few line shapes.                              *)
(***************************************************************************)

\* most lines of a generated text
MaxLines == 3

\* the shapes a line of config.txt takes (without its line break)
LineBodies ==
    { <<"K", "=", "1">>,
      <<"K", " ", "=", " ", "1">>,
      <<" ", "K", "=", "2", " ", "#", "c">>,
      <<"J", "=", "3">>,
      <<"J", " ", "=", "4">>,
      <<"#", "K", "=", "5">>,
      <<"K">>,
      <<"=", "6">>,
      <<"J", "=", "9", " ", "#", "a", " ", "=", " ", "b">>,
      <<>> }

\* the line break a generated text uses
Eols == { <<"\n">>, <<"\r", "\n">> }

TextParams == { <<"K">>, <<"J">> }
TextValues == { <<"7">>, <<"8", "#">> }

\* the lines joined by eol, with or without a trailing eol
RECURSIVE JoinWith(_, _)
JoinWith(lines, eol) ==
    IF lines = <<>> THEN <<>>
    ELSE IF Len(lines) = 1 THEN lines[1]
    ELSE lines[1] \o eol \o JoinWith(Tail(lines), eol)

MakeText(lines, eol, trailing) ==
    JoinWith(lines, eol) \o (IF trailing /\ lines # <<>> THEN eol ELSE <<>>)

\* the texts of at most MaxLines lines
GeneratedTexts ==
    UNION { { MakeText(lines, eol, trailing) :
                lines \in [1..n -> LineBodies], eol \in Eols,
                trailing \in BOOLEAN } : n \in 0..MaxLines }

\* a config.txt with a comment line, a spaced pair and an inline comment
ParseExample ==
    << "#", " ", "comment", "\n",
       "PIEC_ZADANA", " ", "=", " ", "55", "\n",
       "CO_TRYB", "=", "ZIMA", " ", "#", " ", "note", "\n" >>

ExampleTexts == {ParseExample}

InitText ==
    /\ file = <<>>
    /\ ClientIdle
    /\ DataOff
    /\ EntOff
    /\ ActOff
    /\ t_pc = "input"
    /\ t_text \in GeneratedTexts \cup ExampleTexts
    /\ t_param \in TextParams
    /\ t_value \in TextValues
    /\ t_new = None
    /\ t_cfg = <<>>
    /\ PollOff
    /\ HttpOff

\* new_config = self._replace_config_param(raw_config, param, value)
TextReplace ==
    /\ t_pc = "input"
    /\ t_new' = _replace_config_param(t_text, t_param, t_value)
    /\ t_pc' = "replaced"
    /\ UNCHANGED <<t_text, t_param, t_value, t_cfg>>
    /\ UNCHANGED <<clientVars, pollVars, httpVars, dataVars, entVars, actVars>>

\* self._parse_config(text), of the text before and after the replacement
TextParse ==
    /\ t_pc = "replaced"
    /\ t_cfg' = << _parse_config(t_text),
                   IF t_new = None THEN <<>> ELSE _parse_config(t_new) >>
    /\ t_pc' = "parsed"
    /\ UNCHANGED <<t_text, t_param, t_value, t_new>>
    /\ UNCHANGED <<clientVars, pollVars, httpVars, dataVars, entVars, actVars>>

NextText == TextReplace \/ TextParse

SpecText == InitText /\ [][NextText]_vars

(***************************************************************************)
(* Properties                                                              *)
(***************************************************************************)

\* task t ran async_set_config_param itself and the call has ended
ScpDone(t) == op[t] = "set_config_param" /\ pc[t] = "done"

\* what the program reads as the value of key k in a config text
ConfigValue(text, k) == DictGet(_parse_config(text), k, None)

\* the requests of one async_set_config_param call, in the order of the code
ScpOrder == <<"GET /config.txt", "PUT /upload/config.txt", "GET /configreload">>

\* C1: two overlapping async_set_config_param calls on different keys both
\* take effect: once both have returned true, the device file holds both
\* new values.
C1_BothTakeEffect ==
    \A t, u \in Tasks :
        ( /\ t # u
          /\ overlapped
          /\ ScpDone(t) /\ ScpDone(u)
          /\ ret[t] = "True" /\ ret[u] = "True"
          /\ param[t] # param[u] )
        => /\ ConfigValue(file, param[t]) = value[t]
           /\ ConfigValue(file, param[u]) = value[u]

\* task t has fetched config.txt and its reload has not yet been answered
InSequence(t) == pc[t] \in {"scp_put", "scp_reload"}

\* C2: the fetch-modify-upload-reload sequence is one serialized unit: no
\* two calls are between their config fetch and their reload at once (a
\* state with two of them there has a step of one inside the other's).
C2_Serialized ==
    \A t, u \in Tasks : t # u => ~(InSequence(t) /\ InSequence(u))

\* x is one line: it has no line break but the one that ends it
IsOneLine(x) ==
    \A k \in 1..Len(x) :
        x[k] \in LineBreaks =>
            \/ k = Len(x)
            \/ k = Len(x) - 1 /\ x[k] = "\r" /\ x[Len(x)] = "\n"

\* b is a with one line (line break included) replaced by one line
OnlyOneLineDiffers(a, b) ==
    \E i \in 0..Len(a) :
        \E j \in (i + 1)..Len(a) :
            LET rest == Len(a) - j
            IN  /\ i = 0 \/ a[i] \in LineBreaks
                /\ j = Len(a) \/ a[j] \in LineBreaks
                /\ IsOneLine(SubSeq(a, i + 1, j))
                /\ Len(b) >= i + rest
                /\ SubSeq(b, 1, i) = SubSeq(a, 1, i)
                /\ SubSeq(b, Len(b) - rest + 1, Len(b)) = SubSeq(a, j + 1, Len(a))
                /\ IsOneLine(SubSeq(b, i + 1, Len(b) - rest))

\* C3: for every config text that contains the key, the text to upload
\* differs from the fetched text only in the target line: every other line
\* is there byte for byte, line breaks included.
C3_OtherLinesPreserved ==
    (t_pc \in {"replaced", "parsed"} /\ t_new # None)
        => OnlyOneLineDiffers(t_text, t_new)

\* the fetched text of task t has no non-comment key=value line for its key
KeyAbsent(t) ==
    fetched[t] # None /\ param[t] \notin DOMAIN _parse_config(fetched[t])

\* C4: when the fetched text has no line for the parameter, the call
\* returns false having issued the fetch alone (no upload, no reload), and
\* the device file is as it was, unless another call uploaded.
C4_NotFoundNoSideEffects ==
    \A t \in Tasks :
        (op[t] = "set_config_param" /\ KeyAbsent(t))
        => /\ pc[t] = "done"
           /\ ret[t] = "False"
           /\ reqs[t] = << [req |-> "GET /config.txt", ok |-> TRUE] >>
           /\ t \notin uploaders
           /\ (uploaders = {} => file = before[t])

C4_Witness ==
    \E t \in Tasks :
        /\ ScpDone(t)
        /\ KeyAbsent(t)
        /\ ret[t] = "False"
        /\ file = before[t]

\* C5: the requests of a call are fetch, upload, reload in this order; each
\* is issued only after the one before it succeeded (the upload only when
\* the fetched text has the key); a failed request ends the call; and the
\* call returns true exactly when all three succeeded.
C5_StepsInOrder ==
    \A t \in Tasks :
        op[t] = "set_config_param" =>
            LET r == reqs[t]
            IN  /\ Len(r) <= 3
                /\ \A i \in 1..Len(r) : r[i].req = ScpOrder[i]
                /\ \A i \in 1..(Len(r) - 1) : r[i].ok
                /\ Len(r) >= 2 => param[t] \in DOMAIN _parse_config(fetched[t])
                /\ (Len(r) >= 1 /\ ~r[Len(r)].ok)
                       => (pc[t] = "done" /\ ret[t] # "True")
                /\ pc[t] = "done" =>
                       (ret[t] = "True" <=>
                            (Len(r) = 3 /\ \A i \in 1..3 : r[i].ok))

C5_Witness ==
    \E t \in Tasks :
        /\ ScpDone(t)
        /\ ret[t] = "True"
        /\ Len(reqs[t]) = 3
        /\ ConfigValue(file, param[t]) = value[t]

\* C6: a false result means no state change: whenever the call returns
\* false (and no other call uploaded), the device file is what it was
\* before the call.
C6_FalseMeansUnchanged ==
    \A t \in Tasks :
        (ScpDone(t) /\ ret[t] = "False" /\ uploaders \subseteq {t})
        => file = before[t]

\* C7: no write or command operation raises: whatever the HTTP calls do,
\* the operation gives its caller a boolean, true only when its requests
\* all succeeded.
C7_NeverRaises ==
    \A t \in Tasks :
        pc[t] = "done" =>
            /\ ret[t] \in {"True", "False"}
            /\ ret[t] = "True" =>
                   (reqs[t] # <<>> /\ \A i \in 1..Len(reqs[t]) : reqs[t][i].ok)

\* the async_set_co_circuit call has ended
CoDone == op[CoTask] = "set_co_circuit" /\ pc[CoTask] = "done"

\* C8: async_set_co_circuit returns true only if its three set_config_param
\* steps all succeeded.
C8_TrueOnlyIfAllSteps ==
    (CoDone /\ ret[CoTask] = "True")
        => /\ Len(writes[CoTask]) = 3
           /\ \A i \in 1..3 : writes[CoTask][i].res = "True"

\* C9: when a step of async_set_co_circuit fails, a write of PIEC_TRYB=AUTO
\* is attempted after that failure and before the call returns, and the
\* call does not raise.
C9_RecoveryAttempted ==
    CoDone =>
        LET w == writes[CoTask]
        IN  /\ \A i \in 1..Len(w) :
                   w[i].res # "True" =>
                       \E j \in (i + 1)..Len(w) :
                           /\ w[j].param = <<"PIEC_TRYB">>
                           /\ w[j].value = <<"AUTO">>
            /\ ret[CoTask] \in {"True", "False"}

\* the writes of async_set_co_circuit are RECZNY, CO_TRYB, AUTO in this
\* order, each started after the one before it ended
CoWritesInOrder ==
    op[CoTask] = "set_co_circuit" =>
        LET w == writes[CoTask]
        IN  /\ Len(w) \in 1..3
            /\ \A i \in 1..Len(w) :
                   <<w[i].param, w[i].value>> = CoStepArgs(i, enabled[CoTask])
            /\ \A i \in 1..(Len(w) - 1) : w[i].res # "pending"

\* C10: async_set_co_circuit issues its writes in the order PIEC_TRYB=RECZNY,
\* CO_TRYB=token, PIEC_TRYB=AUTO, each after the one before it has ended,
\* and when all three succeeded (no other writer) the device file has
\* PIEC_TRYB=AUTO and CO_TRYB=token.
C10_OrderAndFinalFile ==
    /\ CoWritesInOrder
    /\ ( /\ CoDone
         /\ Len(writes[CoTask]) = 3
         /\ \A i \in 1..3 : writes[CoTask][i].res = "True" )
       => /\ ConfigValue(file, <<"PIEC_TRYB">>) = <<"AUTO">>
          /\ ConfigValue(file, <<"CO_TRYB">>) =
                 CoStepArgs(2, enabled[CoTask])[2]

(***************************************************************************)
(* The line rules of config.txt, stated line by line                       *)
(***************************************************************************)

\* position of the key/value delimiter (the first "=") in the trimmed line
Delimiter(line) == IndexOf("=", strip(line))

\* the line is a pair: not blank, not a comment, has "=" and a key before it
IsPair(line) ==
    LET s == strip(line)
    IN  /\ s # <<>>
        /\ s[1] # "#"
        /\ HasSym("=", s)
        /\ strip(SubSeq(s, 1, Delimiter(line) - 1)) # <<>>

\* the trimmed text before the delimiter
KeyOf(line) == strip(SubSeq(strip(line), 1, Delimiter(line) - 1))

\* the trimmed text after the delimiter, up to an inline "#"
ValueOf(line) ==
    LET s == strip(line)
        raw == SubSeq(s, Delimiter(line) + 1, Len(s))
        h == IndexOf("#", raw)
    IN  strip(IF h = 0 THEN raw ELSE SubSeq(raw, 1, h - 1))

\* the lines of a text that are pairs for key k
PairLines(text, k) ==
    LET lines == splitlines(text)
    IN  {i \in 1..Len(lines) : IsPair(lines[i]) /\ KeyOf(lines[i]) = k}

Range(f) == {f[i] : i \in DOMAIN f}

Min(S) == CHOOSE x \in S : \A y \in S : x <= y
Max(S) == CHOOSE x \in S : \A y \in S : x >= y

\* the line has " = " around its key/value delimiter
SpacedDelimiter(line) ==
    LET d == IndexOf("=", line)
    IN  /\ d > 1
        /\ d < Len(line)
        /\ line[d - 1] = " "
        /\ line[d + 1] = " "

\* C17: a replacement changes the target line alone (the other lines keep
\* their content and the number of lines stays), and the new line is
\* KEY = VALUE exactly when the original line had " = " around its
\* key/value delimiter, KEY=VALUE otherwise.
C17_SpacingKept ==
    (t_pc \in {"replaced", "parsed"} /\ t_new # None) =>
        LET lines == splitlines(t_text)
            news == splitlines(t_new)
            i == Min(PairLines(t_text, t_param))
        IN  /\ Len(news) = Len(lines)
            /\ \A j \in 1..Len(lines) : j # i => news[j] = lines[j]
            /\ news[i] = t_param
                   \o (IF SpacedDelimiter(lines[i])
                       THEN <<" ", "=", " ">> ELSE <<"=">>)
                   \o t_value

\* what the example of the line rules parses to
ParseExampleDict ==
    (<<"PIEC_ZADANA">> :> <<"55">>) @@ (<<"CO_TRYB">> :> <<"ZIMA">>)

\* C18: parsing follows the line rules: the keys of the mapping are the
\* keys of the pair lines (comment lines, lines without "=" and lines with
\* an empty key give nothing), each key's value is the trimmed text after
\* the first "=" of one of its lines, cut at an inline "#"; the example
\* text parses to exactly {PIEC_ZADANA: 55, CO_TRYB: ZIMA}.
C18_LineRules ==
    t_pc = "parsed" =>
        LET cfg == t_cfg[1]
            lines == splitlines(t_text)
        IN  /\ DOMAIN cfg =
                   {KeyOf(lines[i]) : i \in {j \in 1..Len(lines) : IsPair(lines[j])}}
            /\ \A k \in DOMAIN cfg :
                   \E i \in PairLines(t_text, k) : cfg[k] = ValueOf(lines[i])
            /\ t_text = ParseExample => cfg = ParseExampleDict

C18_Witness ==
    /\ t_pc = "parsed"
    /\ t_text = ParseExample
    /\ t_cfg[1] = ParseExampleDict

\* C19: when a key is on several pair lines, the mapping has the value of
\* the last of them (and the parse ends with a mapping, not an error).
C19_LastWins ==
    t_pc = "parsed" =>
        \A k \in {KeyOf(l) : l \in {x \in Range(splitlines(t_text)) : IsPair(x)}} :
            PairLines(t_text, k) # {} =>
                /\ k \in DOMAIN t_cfg[1]
                /\ t_cfg[1][k] =
                       ValueOf(splitlines(t_text)[Max(PairLines(t_text, k))])

C19_Witness ==
    /\ t_pc = "parsed"
    /\ \E k \in TextParams :
         LET hits == PairLines(t_text, k)
             lines == splitlines(t_text)
         IN  /\ Cardinality(hits) >= 2
             /\ ValueOf(lines[Min(hits)]) # ValueOf(lines[Max(hits)])
             /\ t_cfg[1][k] = ValueOf(lines[Max(hits)])

\* C20: the text produced by a replacement of key k parses to the same key
\* set as the original text, with the same value for every key but k.
C20_OthersPreserved ==
    (t_pc = "parsed" /\ t_new # None) =>
        /\ DOMAIN t_cfg[2] = DOMAIN t_cfg[1]
        /\ \A k \in DOMAIN t_cfg[1] : k # t_param => t_cfg[2][k] = t_cfg[1][k]

C20_Witness ==
    /\ t_pc = "parsed"
    /\ t_new # None
    /\ \E k \in DOMAIN t_cfg[1] : k # t_param /\ t_cfg[2][k] = t_cfg[1][k]
    /\ t_cfg[2][t_param] # t_cfg[1][t_param]

(***************************************************************************)
(* Request harness: one call of _get, _put or a read endpoint, for every   *)
(* way the HTTP request can end.                                           *)
(***************************************************************************)

\* the client methods that make one HTTP request
HttpOps ==
    {"_get", "_put", "async_get_thermos", "async_get_config",
     "async_get_config_raw"}

\* the methods that read the body of the response they got
ReadOps == {"async_get_thermos", "async_get_config", "async_get_config_raw"}

InitHttp ==
    /\ file = <<>>
    /\ ClientIdle
    /\ DataOff
    /\ EntOff
    /\ ActOff
    /\ TextOff
    /\ PollOff
    /\ h_pc = "call"
    /\ h_op \in HttpOps
    /\ h_out \in Outcomes
    /\ h_body \in BOOLEAN
    /\ h_res = "none"

\* await self._session.get(...) / put(...), and the status tests of _get/_put;
\* a read endpoint lets what _get raises through
HttpRequest ==
    /\ h_pc = "call"
    /\ LET e == Raised(h_out)
       IN  IF e # "none"
           THEN h_res' = e /\ h_pc' = "done"
           ELSE IF h_op \in ReadOps
                THEN h_res' = "none" /\ h_pc' = "body"
                ELSE h_res' = "returned" /\ h_pc' = "done"
    /\ UNCHANGED <<h_op, h_out, h_body>>
    /\ UNCHANGED <<clientVars, textVars, pollVars, dataVars, entVars, actVars>>

\* await response.json(content_type=None) / await response.text()
HttpBody ==
    /\ h_pc = "body"
    /\ h_res' = IF h_body THEN "returned" ELSE BodyError(h_op)
    /\ h_pc' = "done"
    /\ UNCHANGED <<h_op, h_out, h_body>>
    /\ UNCHANGED <<clientVars, textVars, pollVars, dataVars, entVars, actVars>>

NextHttp == HttpRequest \/ HttpBody

SpecHttp == InitHttp /\ [][NextHttp]_vars

JNull == [null |-> TRUE]
JInt(n) == [int |-> n]
JFloat(hundredths) == [float |-> hundredths]
JBool(b) == [bool |-> b]
JStr(s) == [str |-> s]
JList(l) == [list |-> l]
JObj(d) == [dict |-> d]

IsA(v, type) == type \in DOMAIN v

\* hundredths in one unit of a float
Scale == 100

\* the strings float() accepts, with the float each gives (in hundredths)
FloatOf ==
    ("55" :> 5500) @@ ("60" :> 6000) @@ ("5" :> 500) @@ ("-1" :> -100)
        @@ ("1" :> 100) @@ ("0" :> 0) @@ ("3665" :> 366500) @@ ("1.5" :> 150)

\* the strings int() accepts, with the int each gives ("1.5" is not one)
IntOf ==
    ("55" :> 55) @@ ("60" :> 60) @@ ("5" :> 5) @@ ("-1" :> -1)
        @@ ("1" :> 1) @@ ("0" :> 0) @@ ("3665" :> 3665)

\* float(value): the float, or the exception raised
PyFloat(v) ==
    IF IsA(v, "int") THEN [ok |-> v.int * Scale]
    ELSE IF IsA(v, "float") THEN [ok |-> v.float]
    ELSE IF IsA(v, "bool") THEN [ok |-> IF v.bool THEN Scale ELSE 0]
    ELSE IF IsA(v, "str")
    THEN IF Len(v.str) = 1 /\ v.str[1] \in DOMAIN FloatOf
         THEN [ok |-> FloatOf[v.str[1]]]
         ELSE [exc |-> "ValueError"]
    ELSE [exc |-> "TypeError"]

\* int(value): the int, or the exception raised; a float is truncated
\* toward zero
PyInt(v) ==
    IF IsA(v, "int") THEN [ok |-> v.int]
    ELSE IF IsA(v, "float")
    THEN [ok |-> IF v.float >= 0 THEN v.float \div Scale
                 ELSE 0 - ((0 - v.float) \div Scale)]
    ELSE IF IsA(v, "bool") THEN [ok |-> IF v.bool THEN 1 ELSE 0]
    ELSE IF IsA(v, "str")
    THEN IF Len(v.str) = 1 /\ v.str[1] \in DOMAIN IntOf
         THEN [ok |-> IntOf[v.str[1]]]
         ELSE [exc |-> "ValueError"]
    ELSE [exc |-> "TypeError"]

\* _safe_float: None for None, float(value), None on ValueError or TypeError
_safe_float(v) ==
    IF v = JNull THEN None
    ELSE LET r == PyFloat(v)
         IN  IF IsA(r, "ok") THEN <<"float", r.ok>> ELSE None

\* _safe_positive with the check of the sign left out
_safe_positive_AnySign(v) == _safe_float(v)

\* _safe_positive: _safe_float, and None for a negative result
_safe_positive(v) ==
    LET result == _safe_float(v)
    IN  IF result # None /\ result[2] < 0 THEN None ELSE result

\* _safe_int: None for None, int(value), None on ValueError or TypeError
_safe_int(v) ==
    IF v = JNull THEN None
    ELSE LET r == PyInt(v)
         IN  IF IsA(r, "ok") THEN <<"int", r.ok>> ELSE None

\* _int_to_bool that takes 1 alone for true
_int_to_bool_OnlyOne(v) ==
    IF v = JNull THEN FALSE
    ELSE LET r == PyInt(v)
         IN  IF IsA(r, "ok") THEN r.ok = 1 ELSE FALSE

\* _int_to_bool: False for None, int(value) != 0, False on ValueError or
\* TypeError
_int_to_bool(v) ==
    IF v = JNull THEN FALSE
    ELSE LET r == PyInt(v)
         IN  IF IsA(r, "ok") THEN r.ok # 0 ELSE FALSE

\* thermos.get(key): None when the key is missing
Get(th, key) == IF key \in DOMAIN th THEN th[key] ELSE JNull

\* config.get(key): the str of the key, None when the key is missing
ConfigGet(config, key) ==
    IF key \in DOMAIN config THEN JStr(config[key]) ELSE JNull

\* const.TEMP_SENSORS
TEMP_SENSORS ==
    << "tPIEC", "tPOWROT", "tPODAJNIK", "tZEW", "tWEW", "tCWU", "tPODLOGA",
       "tSPALINY", "tT1", "tT2", "tT3", "tT4", "tT5", "tT6", "tT7", "tT8" >>

\* the exception the loop over TEMP_SENSORS raises, "none" when it ends:
\* len(thermos_list) needs a sized value, thermos_list[i] a sequence and
\* thermos_list[i].get a dict
TemperaturesError(thermos_list) ==
    IF IsA(thermos_list, "list")
    THEN IF \E i \in 1..Len(TEMP_SENSORS) :
                /\ i <= Len(thermos_list.list)
                /\ ~IsA(thermos_list.list[i], "dict")
         THEN "AttributeError"
         ELSE "none"
    ELSE IF IsA(thermos_list, "str") THEN "AttributeError"
    ELSE IF IsA(thermos_list, "dict") THEN "KeyError"
    ELSE "TypeError"

\* the loop over TEMP_SENSORS with 0.0 for a slot without an entry
Temperatures_ZeroFill(thermos_list) ==
    [ k \in {TEMP_SENSORS[i] : i \in 1..Len(TEMP_SENSORS)} |->
        LET i == CHOOSE j \in 1..Len(TEMP_SENSORS) : TEMP_SENSORS[j] = k
        IN  IF i <= Len(thermos_list.list)
            THEN _safe_float(Get(thermos_list.list[i].dict, "t"))
            ELSE <<"float", 0>> ]

\* self.temperatures: for i, sensor_key in enumerate(TEMP_SENSORS), the
\* "t" of entry i when the list has one, None when it has not
Temperatures(thermos_list) ==
    [ k \in {TEMP_SENSORS[i] : i \in 1..Len(TEMP_SENSORS)} |->
        LET i == CHOOSE j \in 1..Len(TEMP_SENSORS) : TEMP_SENSORS[j] = k
        IN  IF i <= Len(thermos_list.list)
            THEN _safe_float(Get(thermos_list.list[i].dict, "t"))
            ELSE None ]

\* str(value) of the firmware version: a str is itself
PyStr(v) == IF IsA(v, "str") THEN v.str ELSE <<"str", v>>

\* the default of the config-derived strings
unknown == <<"unknown">>

\* LucjanData.__init__: the raw inputs, the fields parsed from the status
\* mapping and the fields parsed from the config mapping; the exception of
\* the loop over TEMP_SENSORS leaves no snapshot
LucjanData(th, config) ==
    LET thermos_list ==
            IF "thermos" \in DOMAIN th THEN th["thermos"] ELSE JList(<<>>)
        err == TemperaturesError(thermos_list)
    IN  IF err # "none" THEN [raised |-> err]
        ELSE
            [ raw_thermos |-> th,
              raw_config |-> config,
              temperatures |-> Temperatures(thermos_list),
              pump_co |-> _int_to_bool(Get(th, "co")),
              pump_cwu1 |-> _int_to_bool(Get(th, "cwu1")),
              pump_cwu2 |-> _int_to_bool(Get(th, "cwu2")),
              circulation |-> _int_to_bool(Get(th, "cyrk")),
              feeder |-> _int_to_bool(Get(th, "pod")),
              thermostat |-> _int_to_bool(Get(th, "ter")),
              alarm |-> _int_to_bool(Get(th, "al")),
              fan_power |-> _safe_float(Get(th, "wen0")),
              fan_modulation |-> _safe_float(Get(th, "wen1")),
              feeder_time_s |-> _safe_float(Get(th, "podcz")),
              feeder_time_remaining_s |-> _safe_positive(Get(th, "podczzas")),
              feeder_time_total_s |-> _safe_positive(Get(th, "podczdo")),
              feeder_g_per_min |-> _safe_positive(Get(th, "podgmin")),
              hopper_cm |-> _safe_positive(Get(th, "podcm")),
              hopper_percent_raw |-> _safe_positive(Get(th, "podcmp")),
              firmware_version |->
                  IF "ver" \in DOMAIN th THEN PyStr(th["ver"]) ELSE unknown,
              uptime_seconds |-> _safe_int(Get(th, "time")),
              target_temp_co |-> _safe_float(ConfigGet(config, <<"PIEC_ZADANA">>)),
              target_temp_cwu |-> _safe_float(ConfigGet(config, <<"CWU_ZADANA">>)),
              boiler_mode |-> DictGet(config, <<"PIEC_TRYB">>, unknown),
              co_mode |-> DictGet(config, <<"CO_TRYB">>, unknown),
              cwu_mode |-> DictGet(config, <<"CWU_TRYB">>, unknown),
              algorithm |-> DictGet(config, <<"PIEC_ALGORYTM">>, unknown),
              piec_t_max |-> _safe_float(ConfigGet(config, <<"PIEC_T_MAX">>)),
              piec_t_min |-> _safe_float(ConfigGet(config, <<"PIEC_T_MIN">>)),
              co_algorytm |-> DictGet(config, <<"CO_ALGORYTM">>, unknown),
              cwu_algorytm |-> DictGet(config, <<"CWU_ALGORYTM">>, unknown),
              cwu_priorytet |-> DictGet(config, <<"CWU_PRIORYTET">>, unknown),
              cwu_histereza |-> _safe_float(ConfigGet(config, <<"CWU_HISTEREZA">>)),
              cwu_t_max |-> _safe_float(ConfigGet(config, <<"CWU_T_MAX">>)),
              piec_histereza_raw |->
                      _safe_float(ConfigGet(config, <<"PIEC_HISTEREZA">>)),
              zawor4d_tryb |-> DictGet(config, <<"ZAWOR4D-TRYB">>, unknown),
              zawor4d_zadana |-> _safe_float(ConfigGet(config, <<"ZAWOR4D-ZADANA">>)),
              zawor4d_czujnik |-> DictGet(config, <<"ZAWOR4D-CZUJNIK">>, unknown),
              zawor4d_histereza_raw |->
                      _safe_float(ConfigGet(config, <<"ZAWOR4D-HISTEREZA">>)),
              zawor4d_preset |-> _safe_float(ConfigGet(config, <<"ZAWOR4D-PRESET">>)),
              cyrkulacja_algorytm |-> DictGet(config, <<"CYRKULACJA_ALGORYTM">>, unknown),
              cyrkulacja_tmin |->
                      _safe_float(ConfigGet(config, <<"CYRKULACJA_TMIN">>)),
              autolato_temp |-> _safe_float(ConfigGet(config, <<"AUTOLATO_TEMP">>)),
              autolato_twew |-> _safe_float(ConfigGet(config, <<"AUTOLATO_TWEW">>)),
              autolato_histereza_raw |->
                      _safe_float(ConfigGet(config, <<"AUTOLATO_HISTEREZA">>)) ]

\* the snapshot was built: LucjanData.__init__ raised nothing
IsSnapshot(d) == "raw_thermos" \in DOMAIN d

\* round(n / d, 0) for d > 0: the nearest integer, the even one of two
\* equally near
Round(n, d) ==
    LET q == n \div d
        r == n - q * d
    IN  IF 2 * r < d THEN q
        ELSE IF 2 * r > d THEN q + 1
        ELSE IF q % 2 = 0 THEN q ELSE q + 1

\* hopper_level_percent that computes the percentage before it looks at
\* the direct field
hopper_level_percent_ComputedFirst(self) ==
    LET remaining == self.feeder_time_remaining_s
        total == self.feeder_time_total_s
    IN  IF remaining # None /\ total # None /\ total[2] > 0
        THEN <<"float", (Scale \div 10) * Round(remaining[2] * 100 * 10, total[2])>>
        ELSE self.hopper_percent_raw

\* LucjanData.hopper_level_percent: the direct field, else
\* round(remaining / total * 100, 1), else None
hopper_level_percent(self) ==
    LET remaining == self.feeder_time_remaining_s
        total == self.feeder_time_total_s
    IN  IF self.hopper_percent_raw # None THEN self.hopper_percent_raw
        ELSE IF remaining # None /\ total # None /\ total[2] > 0
        THEN <<"float", (Scale \div 10) * Round(remaining[2] * 100 * 10, total[2])>>
        ELSE None

\* fuel_consumption_kg without the test of the rate
fuel_consumption_kg_AnyRate(self) ==
    LET time_s == self.feeder_time_s
        g_per_min == self.feeder_g_per_min
    IN  IF time_s # None /\ g_per_min # None
        THEN <<"float", Round(time_s[2] * g_per_min[2], Scale * 60 * 1000)>>
        ELSE None

\* LucjanData.fuel_consumption_kg:
\* round(feeder_time_s / 60 * feeder_g_per_min / 1000, 2), None without a
\* runtime or without a rate above 0
fuel_consumption_kg(self) ==
    LET time_s == self.feeder_time_s
        g_per_min == self.feeder_g_per_min
    IN  IF time_s # None /\ g_per_min # None /\ g_per_min[2] > 0
        THEN <<"float", Round(time_s[2] * g_per_min[2], Scale * 60 * 1000)>>
        ELSE None

\* the decimal digits of a natural number, as str() writes them
RECURSIVE Digits(_)
Digits(n) ==
    LET d == <<"0", "1", "2", "3", "4", "5", "6", "7", "8", "9">>[(n % 10) + 1]
    IN  IF n < 10 THEN <<d>> ELSE Append(Digits(n \div 10), d)

\* str(n) of an int
IntStr(n) == IF n < 0 THEN <<"-">> \o Digits(0 - n) ELSE Digits(n)

\* uptime_formatted with the minutes taken from the seconds
uptime_formatted_SecondsAsMinutes(self) ==
    IF self.uptime_seconds = None THEN None
    ELSE LET s == self.uptime_seconds[2]
             h == s \div 3600
             m == s % 60
         IN  IntStr(h) \o <<"h", " ">> \o IntStr(m) \o <<"m">>

\* LucjanData.uptime_formatted: f"{h}h {m}m" with h = s // 3600 and
\* m = (s % 3600) // 60, None without uptime_seconds
uptime_formatted(self) ==
    IF self.uptime_seconds = None THEN None
    ELSE LET s == self.uptime_seconds[2]
             h == s \div 3600
             m == (s % 3600) \div 60
         IN  IntStr(h) \o <<"h", " ">> \o IntStr(m) \o <<"m">>

(***************************************************************************)
(* The device as the coordinator sees it                                   *)
(***************************************************************************)

\* status mappings the device returns (thermos.json)
Thermos_A == [co |-> JInt(1), al |-> JInt(0), time |-> JInt(83198)]
Thermos_B == [co |-> JInt(0), al |-> JInt(1), time |-> JInt(83258)]

StatusValues == {Thermos_A, Thermos_B}

\* a config.txt with a numeric setpoint
File_C ==
    << "PIEC_TRYB", "=", "RECZNY", "\n",
       "PIEC_ZADANA", " ", "=", " ", "55", "\n",
       "CWU_ZADANA", "=", "x", "\n" >>

PollFiles == InitialFiles \cup {File_C}

(***************************************************************************)
(* LucjanCoordinator._async_update_data: one poll cycle                    *)
(***************************************************************************)

\* the except clauses of _async_update_data: every exception becomes
\* UpdateFailed, with a message by its class
UpdateFailed(e) ==
    IF e = "LucjanConnectionError" THEN "UpdateFailed: Connection error"
    ELSE IF IsLucjanApiError(e) THEN "UpdateFailed: API error"
    ELSE "UpdateFailed: Unexpected error"

\* AfterThermos that goes on to the config whatever the status fetch did
AfterThermos_Continue(e) == "config"

\* after async_get_thermos: an exception ends the cycle
AfterThermos(e) == IF e = "none" THEN "config" ELSE UpdateFailed(e)

\* AfterConfig with no inner try: a failed config fetch ends the cycle
AfterConfig_Fatal(e) == IF e = "none" THEN "parsed" ELSE UpdateFailed(e)

\* after async_get_config, inside the inner try: a LucjanApiError leaves
\* config = {}, any other exception ends the cycle
AfterConfig(e) ==
    IF e = "none" THEN "parsed"
    ELSE IF IsLucjanApiError(e) THEN "empty"
    ELSE UpdateFailed(e)

\* a cycle starts: _async_update_data is called
BeginCycle ==
    /\ poll_pc' = "thermos"
    /\ poll_thermos' = NoData
    /\ poll_config' = <<>>
    /\ poll_reqs' = <<>>
    /\ poll_res' = "none"
    /\ prev' = data
    /\ UNCHANGED data

\* the cycle raised UpdateFailed: coordinator.data is not assigned
FailCycle(res, rq) ==
    /\ poll_pc' = "idle"
    /\ poll_res' = res
    /\ poll_reqs' = rq
    /\ UNCHANGED <<data, prev>>

\* a scheduled or requested refresh (the coordinator runs one cycle at a time)
PollStart ==
    /\ setup_pc = "ready"
    /\ poll_pc = "idle"
    /\ BeginCycle
    /\ UNCHANGED <<thermos, file, flow_pc, flow_out, flow_errors, flow_entry,
                   setup_pc, runtime_data, platforms>>
    /\ UNCHANGED <<pc, op, param, value, enabled, cstep, fetched, upload, ret,
                   reqs, writes, before, overlapped, uploaders>>
    /\ UNCHANGED <<textVars, httpVars, dataVars, entVars, actVars>>

\* thermos = await self.api.async_get_thermos()
PollThermos ==
    /\ poll_pc = "thermos"
    /\ \E o \in Outcomes, body_ok \in BOOLEAN :
         LET e == GetThermos(o, body_ok)
             nxt == AfterThermos(e)
             rq == Append(poll_reqs, [req |-> "GET /thermos.json",
                                      outcome |-> o, raised |-> e])
         IN  IF nxt = "config"
             THEN /\ poll_pc' = "config"
                  /\ poll_thermos' = IF e = "none" THEN thermos ELSE NoData
                  /\ poll_reqs' = rq
                  /\ UNCHANGED <<poll_res, data, prev>>
             ELSE /\ FailCycle(nxt, rq)
                  /\ UNCHANGED poll_thermos
    /\ UNCHANGED <<thermos, file, flow_pc, flow_out, flow_errors, flow_entry,
                   setup_pc, runtime_data, platforms, poll_config>>
    /\ UNCHANGED <<pc, op, param, value, enabled, cstep, fetched, upload, ret,
                   reqs, writes, before, overlapped, uploaders>>
    /\ UNCHANGED <<textVars, httpVars, dataVars, entVars, actVars>>

\* config = await self.api.async_get_config() in its try, then
\* return LucjanData(thermos=thermos, config=config); what LucjanData raises
\* goes to except Exception
PollConfig ==
    /\ poll_pc = "config"
    /\ \E o \in Outcomes, body_ok \in BOOLEAN :
         LET e == GetConfig(o, body_ok)
             nxt == AfterConfig(e)
             rq == Append(poll_reqs, [req |-> "GET /config.txt",
                                      outcome |-> o, raised |-> e])
             config == IF nxt = "parsed" THEN _parse_config(file) ELSE <<>>
             built == LucjanData(poll_thermos, config)
         IN  IF nxt \in {"parsed", "empty"}
             THEN IF IsSnapshot(built)
                  THEN /\ poll_config' = config
                       /\ data' = built
                       /\ poll_pc' = "idle"
                       /\ poll_res' = "ok"
                       /\ poll_reqs' = rq
                       /\ UNCHANGED prev
                  ELSE /\ FailCycle(UpdateFailed(built.raised), rq)
                       /\ poll_config' = config
             ELSE /\ FailCycle(nxt, rq)
                  /\ UNCHANGED poll_config
    /\ UNCHANGED <<thermos, file, flow_pc, flow_out, flow_errors, flow_entry,
                   setup_pc, runtime_data, platforms, poll_thermos>>
    /\ UNCHANGED <<pc, op, param, value, enabled, cstep, fetched, upload, ret,
                   reqs, writes, before, overlapped, uploaders>>
    /\ UNCHANGED <<textVars, httpVars, dataVars, entVars, actVars>>

\* the boiler's readings and its config.txt change between requests
DeviceChange ==
    /\ thermos' \in StatusValues
    /\ file' \in PollFiles
    /\ <<thermos', file'>> # <<thermos, file>>
    /\ UNCHANGED <<flow_pc, flow_out, flow_errors, flow_entry, setup_pc,
                   runtime_data, platforms, poll_pc, poll_thermos, poll_config,
                   poll_reqs, poll_res, data, prev>>
    /\ UNCHANGED <<pc, op, param, value, enabled, cstep, fetched, upload, ret,
                   reqs, writes, before, overlapped, uploaders>>
    /\ UNCHANGED <<textVars, httpVars, dataVars, entVars, actVars>>

(***************************************************************************)
(* LucjanConfigFlow.async_step_user and async_setup_entry                  *)
(***************************************************************************)

\* FlowErrors with one except clause for every LucjanApiError
FlowErrors_OneClause(e) ==
    IF IsLucjanApiError(e) THEN "cannot_connect" ELSE "unknown"

\* the except clauses of async_step_user, in their order
FlowErrors(e) ==
    IF e = "LucjanAuthError" THEN "invalid_auth"
    ELSE IF e = "LucjanConnectionError" THEN "cannot_connect"
    ELSE "unknown"

\* the user submits the form: a host that has an entry aborts the flow,
\* another goes on to the connection test
FlowSubmit ==
    /\ flow_pc \in {"form", "created", "aborted"}
    /\ flow_pc' = IF flow_entry THEN "aborted" ELSE "testing"
    /\ flow_errors' = "none"
    /\ flow_out' = "none"
    /\ UNCHANGED <<thermos, file, flow_entry, setup_pc, runtime_data, platforms,
                   poll_pc, poll_thermos, poll_config, poll_reqs, poll_res,
                   data, prev>>
    /\ UNCHANGED <<pc, op, param, value, enabled, cstep, fetched, upload, ret,
                   reqs, writes, before, overlapped, uploaders>>
    /\ UNCHANGED <<textVars, httpVars, dataVars, entVars, actVars>>

\* data = await api.async_test_connection(): the entry is created, or the
\* form is shown again with errors["base"]
FlowTest ==
    /\ flow_pc = "testing"
    /\ \E o \in Outcomes, body_ok \in BOOLEAN :
         LET e == GetThermos(o, body_ok)
         IN  /\ flow_out' = o
             /\ IF e = "none"
                THEN /\ flow_pc' = "created"
                     /\ flow_entry' = TRUE
                     /\ UNCHANGED flow_errors
                ELSE /\ flow_pc' = "form"
                     /\ flow_errors' = FlowErrors(e)
                     /\ UNCHANGED flow_entry
    /\ UNCHANGED <<thermos, file, setup_pc, runtime_data, platforms,
                   poll_pc, poll_thermos, poll_config, poll_reqs, poll_res,
                   data, prev>>
    /\ UNCHANGED <<pc, op, param, value, enabled, cstep, fetched, upload, ret,
                   reqs, writes, before, overlapped, uploaders>>
    /\ UNCHANGED <<textVars, httpVars, dataVars, entVars, actVars>>

\* FirstRefresh of a refresh that does not raise (async_refresh)
FirstRefresh_NoRaise(res) == "forward"

\* await coordinator.async_config_entry_first_refresh(): a first cycle that
\* ended in UpdateFailed raises ConfigEntryNotReady out of async_setup_entry
FirstRefresh(res) == IF res = "ok" THEN "forward" ELSE "failed"

\* async_setup_entry is called for the entry (again after a failed setup):
\* the api and the coordinator are built and the first refresh starts
SetupEntry ==
    /\ flow_entry
    /\ setup_pc \in {"none", "failed"}
    /\ poll_pc = "idle"
    /\ setup_pc' = "first_refresh"
    /\ BeginCycle
    /\ UNCHANGED <<thermos, file, flow_pc, flow_out, flow_errors, flow_entry,
                   runtime_data, platforms>>
    /\ UNCHANGED <<pc, op, param, value, enabled, cstep, fetched, upload, ret,
                   reqs, writes, before, overlapped, uploaders>>
    /\ UNCHANGED <<textVars, httpVars, dataVars, entVars, actVars>>

\* the first refresh is over: entry.runtime_data = coordinator, or the
\* exception ends async_setup_entry
SetupAfterRefresh ==
    /\ setup_pc = "first_refresh"
    /\ poll_pc = "idle"
    /\ setup_pc' = FirstRefresh(poll_res)
    /\ runtime_data' = (FirstRefresh(poll_res) = "forward")
    /\ UNCHANGED <<thermos, file, flow_pc, flow_out, flow_errors, flow_entry,
                   platforms, poll_pc, poll_thermos, poll_config, poll_reqs,
                   poll_res, data, prev>>
    /\ UNCHANGED <<pc, op, param, value, enabled, cstep, fetched, upload, ret,
                   reqs, writes, before, overlapped, uploaders>>
    /\ UNCHANGED <<textVars, httpVars, dataVars, entVars, actVars>>

\* await hass.config_entries.async_forward_entry_setups(entry, PLATFORMS),
\* then the update listener and return True
SetupForward ==
    /\ setup_pc = "forward"
    /\ platforms' = TRUE
    /\ setup_pc' = "ready"
    /\ UNCHANGED <<thermos, file, flow_pc, flow_out, flow_errors, flow_entry,
                   runtime_data, poll_pc, poll_thermos, poll_config, poll_reqs,
                   poll_res, data, prev>>
    /\ UNCHANGED <<pc, op, param, value, enabled, cstep, fetched, upload, ret,
                   reqs, writes, before, overlapped, uploaders>>
    /\ UNCHANGED <<textVars, httpVars, dataVars, entVars, actVars>>

InitPoll ==
    /\ file \in PollFiles
    /\ thermos \in StatusValues
    /\ ClientIdle
    /\ DataOff
    /\ EntOff
    /\ ActOff
    /\ TextOff
    /\ HttpOff
    /\ flow_pc = "form"
    /\ flow_out = "none"
    /\ flow_errors = "none"
    /\ flow_entry = FALSE
    /\ setup_pc = "none"
    /\ runtime_data = FALSE
    /\ platforms = FALSE
    /\ poll_pc = "idle"
    /\ poll_thermos = NoData
    /\ poll_config = <<>>
    /\ poll_reqs = <<>>
    /\ poll_res = "none"
    /\ data = NoData
    /\ prev = NoData

\* the config flow, the setup of the entry and the coordinator's cycles
NextPoll ==
    \/ FlowSubmit
    \/ FlowTest
    \/ SetupEntry
    \/ SetupAfterRefresh
    \/ SetupForward
    \/ PollStart
    \/ PollThermos
    \/ PollConfig
    \/ DeviceChange

SpecPoll == InitPoll /\ [][NextPoll]_vars

(***************************************************************************)
(* Properties of the coordinator, the setup and the config flow            *)
(***************************************************************************)

\* the last cycle has ended, and how
CycleOk == poll_pc = "idle" /\ poll_res = "ok"
CycleFailed == poll_pc = "idle" /\ poll_res \notin {"none", "ok"}

\* the cycle's status fetch failed
StatusFetchFailed == poll_reqs # <<>> /\ poll_reqs[1].raised # "none"

\* C11: the current snapshot is never partially overwritten: during a cycle
\* it is the one from before the cycle; after a cycle it is either one
\* complete LucjanData built from that cycle's status and config or the
\* snapshot from before; when the status fetch fails the config is not
\* fetched, the cycle ends in UpdateFailed and the snapshot stays.
C11_SnapshotWhole ==
    /\ poll_pc \in {"thermos", "config"} => data = prev
    /\ CycleOk =>
           /\ poll_thermos # NoData
           /\ data = LucjanData(poll_thermos, poll_config)
    /\ CycleFailed => data = prev
    /\ StatusFetchFailed =>
           /\ Len(poll_reqs) = 1
           /\ CycleFailed
           /\ data = prev
    /\ poll_pc = "config" => poll_thermos # NoData

C11_Witness ==
    /\ StatusFetchFailed
    /\ CycleFailed
    /\ prev # NoData
    /\ data = prev
    /\ data.raw_thermos # thermos

\* the cycle's status fetch succeeded and its config fetch raised a
\* LucjanApiError (connection, auth or other HTTP error)
ConfigFetchFailed ==
    /\ poll_pc = "idle"
    /\ Len(poll_reqs) = 2
    /\ poll_reqs[1].raised = "none"
    /\ IsLucjanApiError(poll_reqs[2].raised)

\* the config-derived fields of a snapshot, by type
ConfigStrFields ==
    {"boiler_mode", "co_mode", "cwu_mode", "algorithm", "co_algorytm",
     "cwu_algorytm", "cwu_priorytet", "zawor4d_tryb", "zawor4d_czujnik",
     "cyrkulacja_algorytm"}

ConfigFloatFields ==
    {"target_temp_co", "target_temp_cwu", "piec_t_max", "piec_t_min",
     "cwu_histereza", "cwu_t_max", "piec_histereza_raw", "zawor4d_zadana",
     "zawor4d_histereza_raw", "zawor4d_preset", "cyrkulacja_tmin",
     "autolato_temp", "autolato_twew", "autolato_histereza_raw"}

\* C12: a config fetch that fails with a client error is not fatal: the
\* cycle succeeds and its snapshot has the cycle's status, an empty config
\* mapping, "unknown" in every config-derived string and None in every
\* config-derived number.
C12_ConfigFailureNotFatal ==
    ConfigFetchFailed =>
        /\ poll_res = "ok"
        /\ data.raw_thermos = poll_thermos
        /\ data.raw_config = <<>>
        /\ \A f \in ConfigStrFields : data[f] = <<"unknown">>
        /\ \A f \in ConfigFloatFields : data[f] = None

C12_Witness ==
    /\ ConfigFetchFailed
    /\ poll_res = "ok"
    /\ prev # NoData
    /\ prev.boiler_mode = <<"RECZNY">>
    /\ prev.target_temp_co = <<"float", 5500>>
    /\ data.boiler_mode = <<"unknown">>

\* C14: the system becomes available only after the first refresh
\* succeeded: the coordinator is stored and the platforms are set up only
\* once a first cycle's status fetch succeeded (there is a snapshot), the
\* platforms after the coordinator is stored; a failed first refresh fails
\* the setup with neither done.
C14_AvailableAfterFirstRefresh ==
    /\ (runtime_data \/ platforms \/ setup_pc \in {"forward", "ready"}) =>
           /\ data # NoData
           /\ setup_pc # "first_refresh"
    /\ platforms => runtime_data
    /\ (setup_pc = "first_refresh" /\ CycleFailed) => (~runtime_data /\ ~platforms)
    /\ setup_pc = "failed" =>
           (~runtime_data /\ ~platforms /\ data = NoData /\ CycleFailed)

C14_Witness ==
    /\ setup_pc = "failed"
    /\ StatusFetchFailed
    /\ ~runtime_data
    /\ ~platforms

\* C15: a read failure at initial setup is told apart: a 401 gives
\* invalid_auth, a timeout or a transport failure gives cannot_connect,
\* neither error stands for the other case, no entry is created, and the
\* first refresh's UpdateFailed differs for the two as well.
C15_AuthVsConnectivity ==
    /\ (flow_pc = "form" /\ flow_out # "none") =>
           /\ flow_out = "401" <=> flow_errors = "invalid_auth"
           /\ flow_out \in {"timeout", "client_error"}
                  <=> flow_errors = "cannot_connect"
           /\ ~flow_entry
    /\ (setup_pc \in {"first_refresh", "failed"} /\ StatusFetchFailed) =>
           /\ poll_reqs[1].outcome = "401" =>
                  poll_res = "UpdateFailed: API error"
           /\ poll_reqs[1].outcome \in {"timeout", "client_error"} =>
                  poll_res = "UpdateFailed: Connection error"

C15_Witness ==
    /\ flow_pc = "form"
    /\ flow_out = "401"
    /\ flow_errors = "invalid_auth"
    /\ ~flow_entry


(***************************************************************************)
(* Snapshot harness: LucjanData and its derived properties on status       *)
(* mappings the device can return                                          *)
(***************************************************************************)

\* The example of LucjanData's docstring, with a feeder runtime of 160 s.
\* Numbers are finite and small enough for the products of
\* fuel_consumption_kg; no input of this section puts a quotient exactly
\* halfway between two rounded values, where round() follows the binary
\* representation of the float.
Thermos_Doc ==
    [ thermos |-> JList(<< JObj("t" :> JFloat(5260)), JObj("t" :> JFloat(3800)) >>),
      wen0 |-> JInt(41), wen1 |-> JInt(41),
      podcm |-> JInt(-1), podcmp |-> JInt(-1),
      podcz |-> JInt(160), podczzas |-> JInt(0), podczdo |-> JInt(41538),
      podgmin |-> JInt(260),
      pod |-> JInt(0), co |-> JInt(1), cwu1 |-> JInt(0), cwu2 |-> JInt(0),
      cyrk |-> JInt(0), ter |-> JInt(0), al |-> JInt(0),
      time |-> JInt(83198), ver |-> JStr(<<"0.1.0.130.35">>) ]

\* the key is not in the mapping
Missing == [missing |-> TRUE]

\* th with key set to v, or without key when v is Missing
Put(th, key, v) ==
    IF v = Missing THEN [k \in (DOMAIN th) \ {key} |-> th[k]]
    ELSE [k \in (DOMAIN th) \cup {key} |-> IF k = key THEN v ELSE th[k]]

\* the status fields by the conversion LucjanData applies to them
PositiveFields == {"podcm", "podcmp", "podczzas", "podczdo", "podgmin"}
FloatFields == {"wen0", "wen1", "podcz"}
FlagFields == {"co", "cwu1", "cwu2", "cyrk", "pod", "ter", "al"}

\* the snapshot field of each status field
FieldOf ==
    [ podcm |-> "hopper_cm", podcmp |-> "hopper_percent_raw",
      podczzas |-> "feeder_time_remaining_s",
      podczdo |-> "feeder_time_total_s", podgmin |-> "feeder_g_per_min",
      wen0 |-> "fan_power", wen1 |-> "fan_modulation",
      podcz |-> "feeder_time_s",
      co |-> "pump_co", cwu1 |-> "pump_cwu1", cwu2 |-> "pump_cwu2",
      cyrk |-> "circulation", pod |-> "feeder", ter |-> "thermostat",
      al |-> "alarm", time |-> "uptime_seconds" ]

\* what a status field can hold: nothing, null, numbers of either sign,
\* numeric and non-numeric strings, booleans, containers
FieldValues ==
    { Missing, JNull, JInt(-1), JInt(0), JInt(1), JInt(2), JFloat(-50),
      JFloat(50), JFloat(150), JStr(<<"x">>), JStr(<<"-1">>), JStr(<<"1">>),
      JStr(<<"0">>), JStr(<<"1.5">>), JStr(<<>>), JBool(TRUE), JBool(FALSE),
      JList(<<>>), JObj("t" :> JInt(1)) }

\* what the time field can hold
TimeValues ==
    { Missing, JNull, JInt(0), JInt(59), JInt(60), JInt(3599), JInt(3600),
      JInt(3665), JInt(83198), JInt(-1), JFloat(366570), JFloat(-50),
      JStr(<<"3665">>), JStr(<<"x">>), JStr(<<"1.5">>), JBool(TRUE),
      JList(<<>>) }

\* one field of the example changed
OneFieldInputs ==
    { Put(Thermos_Doc, k, v) :
        k \in PositiveFields \cup FloatFields \cup FlagFields,
        v \in FieldValues }
    \cup { Put(Thermos_Doc, "time", v) : v \in TimeValues }

\* the three fields of the hopper level
HopperInputs ==
    { Put(Put(Put(Thermos_Doc, "podcmp", p), "podczzas", r), "podczdo", t) :
        p \in {Missing, JInt(-1), JInt(0), JInt(75), JStr(<<"x">>)},
        r \in {Missing, JInt(-1), JInt(0), JInt(600), JInt(100)},
        t \in {Missing, JInt(-1), JInt(0), JInt(1200), JInt(300)} }

\* the two fields of the fuel consumption
FuelInputs ==
    { Put(Put(Thermos_Doc, "podcz", t), "podgmin", g) :
        t \in {Missing, JInt(-2), JInt(0), JInt(120), JFloat(1270),
               JStr(<<"x">>)},
        g \in {Missing, JInt(-1), JInt(0), JInt(260), JInt(300)} }

\* several fields malformed at once
MalformedInputs ==
    { [k \in DOMAIN Thermos_Doc |->
         IF k \in S THEN JStr(<<"x">>) ELSE Thermos_Doc[k]] :
        S \in SUBSET {"co", "al", "time", "podcm", "podcz", "wen0"} }

\* entries a "thermos" list can hold: objects with a numeric, non-numeric,
\* null or missing "t", and values that are not objects
EntryValues ==
    { JObj("t" :> JFloat(5260)), JObj("t" :> JInt(38)),
      JObj("t" :> JStr(<<"x">>)), JObj("t" :> JStr(<<"55">>)),
      JObj("t" :> JNull), JObj("u" :> JInt(1)), JNull, JInt(5) }

\* the longest "thermos" list
MaxEntries == 17

\* a list of n entries reading 20 + i at entry i, with e at entry pos
ListWith(n, pos, e) ==
    [i \in 1..n |-> IF i = pos THEN e ELSE JObj("t" :> JInt(20 + i))]

ThermosLists ==
    { JList(ListWith(n, pos, e)) :
        n \in 0..MaxEntries, pos \in 1..MaxEntries, e \in EntryValues }

\* the "thermos" key changed: lists, and values that are not lists
ListInputs ==
    { Put(Thermos_Doc, "thermos", l) :
        l \in ThermosLists
              \cup {Missing, JNull, JInt(1), JStr(<<"x">>), JObj("t" :> JInt(1))} }

DataInputs ==
    OneFieldInputs \cup HopperInputs \cup FuelInputs \cup MalformedInputs
        \cup ListInputs

InitData ==
    /\ file = <<>>
    /\ ClientIdle
    /\ TextOff
    /\ PollOff
    /\ HttpOff
    /\ EntOff
    /\ ActOff
    /\ d_pc = "input"
    /\ d_thermos \in DataInputs
    /\ d_config \in {<<>>, _parse_config(File_C)}
    /\ d_data = NoData
    /\ d_view = NoData

\* LucjanData(thermos=thermos, config=config)
BuildSnapshot ==
    /\ d_pc = "input"
    /\ LET built == LucjanData(d_thermos, d_config)
       IN  /\ d_data' = built
           /\ d_pc' = IF IsSnapshot(built) THEN "built" ELSE "raised"
    /\ UNCHANGED <<d_thermos, d_config, d_view>>
    /\ UNCHANGED <<clientVars, textVars, pollVars, httpVars, entVars, actVars>>

\* the derived properties of the snapshot, as the sensors read them
ReadProperties ==
    /\ d_pc = "built"
    /\ d_view' = [ hopper_level_percent |-> hopper_level_percent(d_data),
                   fuel_consumption_kg |-> fuel_consumption_kg(d_data),
                   uptime_formatted |-> uptime_formatted(d_data) ]
    /\ d_pc' = "read"
    /\ UNCHANGED <<d_thermos, d_config, d_data>>
    /\ UNCHANGED <<clientVars, textVars, pollVars, httpVars, entVars, actVars>>

NextData ==
    \/ BuildSnapshot
    \/ ReadProperties

SpecData == InitData /\ [][NextData]_vars


(***************************************************************************)
(* Properties of the snapshot                                              *)
(***************************************************************************)

\* a snapshot was built from the harness's input
Built == d_pc \in {"built", "read"}

\* what the status mapping holds under a key
RawField(k) == IF k \in DOMAIN d_thermos THEN d_thermos[k] ELSE Missing

\* a number below zero
IsNegative(v) ==
    \/ IsA(v, "int") /\ v.int < 0
    \/ IsA(v, "float") /\ v.float < 0

\* C21: each of the "sensor absent" fields podcm, podcmp, podczzas, podczdo
\* and podgmin is None in the snapshot when the status mapping lacks it or
\* holds a negative number, is never a negative number, and is 0.0 when the
\* mapping holds 0.
C21_SensorAbsentIsNone ==
    Built =>
        \A k \in PositiveFields :
            LET raw == RawField(k)
                got == d_data[FieldOf[k]]
            IN  /\ (raw = Missing \/ IsNegative(raw)) => got = None
                /\ got # None => got[1] = "float" /\ got[2] >= 0
                /\ raw = JInt(0) => got = <<"float", 0>>

C21_Witness ==
    /\ Built
    /\ RawField("podcm") = JInt(-1)
    /\ d_data.hopper_cm = None
    /\ RawField("podczzas") = JInt(0)
    /\ d_data.feeder_time_remaining_s = <<"float", 0>>
    /\ RawField("podgmin") = JFloat(-50)
    /\ d_data.feeder_g_per_min = None

\* a value no numeric conversion accepts
NonNumeric(v) ==
    \/ IsA(v, "list")
    \/ IsA(v, "dict")
    \/ IsA(v, "str") /\ (Len(v.str) # 1 \/ v.str[1] \notin DOMAIN FloatOf)

\* the example with the harness's value under one key
OnlyField(k) == LucjanData(Put(Thermos_Doc, k, RawField(k)), d_config)

\* the "thermos" list of the harness's input, as a sequence
ThermosEntries ==
    IF RawField("thermos") = Missing THEN <<>>
    ELSE IF IsA(RawField("thermos"), "list") THEN RawField("thermos").list
    ELSE <<>>

ReadingOf(entry) ==
    IF "t" \notin DOMAIN entry.dict THEN None
    ELSE LET t == entry.dict["t"]
         IN  IF IsA(t, "int") THEN <<"float", t.int * Scale>>
             ELSE IF IsA(t, "float") THEN <<"float", t.float>>
             ELSE IF t = JStr(<<"55">>) THEN <<"float", 55 * Scale>>
             ELSE None

\* C23: the temperatures mapping of every snapshot has the 16 probe slots
\* of TEMP_SENSORS and no other; slot i holds the reading of entry i of the
\* "thermos" list and None when the list has no entry i or the entry has no
\* numeric "t"; an entry after the 16th changes nothing, whatever it is.
C23_SixteenSlots ==
    /\ Built =>
        /\ DOMAIN d_data.temperatures = Range(TEMP_SENSORS)
        /\ Cardinality(DOMAIN d_data.temperatures) = 16
        /\ \A i \in 1..16 :
              d_data.temperatures[TEMP_SENSORS[i]] =
                  IF i <= Len(ThermosEntries)
                  THEN ReadingOf(ThermosEntries[i]) ELSE None
    /\ (/\ IsA(RawField("thermos"), "list")
        /\ \A i \in 1..16 :
              i <= Len(ThermosEntries) => IsA(ThermosEntries[i], "dict"))
       => d_pc # "raised"

C23_Witness ==
    /\ Built
    /\ Len(ThermosEntries) = 17
    /\ ThermosEntries[17] = JNull
    /\ ThermosEntries[3] = JObj("t" :> JInt(23))
    /\ d_data.temperatures["tPODAJNIK"] = <<"float", 2300>>
    /\ d_data.temperatures["tT8"] = <<"float", 3600>>


\* the derived properties were read from the snapshot
Read == d_pc = "read"

\* |x|
Abs(x) == IF x < 0 THEN 0 - x ELSE x

\* C24: the hopper level is the direct percentage (podcmp) when the
\* snapshot has one, which is never negative; without it, it is
\* remaining / total * 100 to the nearest tenth when podczzas and podczdo
\* are there and the total is above 0; it is None in every other case, so
\* with a total of 0.  podcmp = -1, podczzas = 600, podczdo = 1200 give 50.0.
C24_HopperLevel ==
    Read =>
        LET direct == d_data.hopper_percent_raw
            remaining == d_data.feeder_time_remaining_s
            total == d_data.feeder_time_total_s
            got == d_view.hopper_level_percent
        IN  /\ IF direct # None
               THEN direct[2] >= 0 /\ got = direct
               ELSE IF remaining # None /\ total # None /\ total[2] > 0
               THEN /\ got # None
                    /\ got[1] = "float"
                    /\ got[2] % (Scale \div 10) = 0
                    /\ 2 * Abs(got[2] * total[2] - 100 * Scale * remaining[2])
                           <= (Scale \div 10) * total[2]
               ELSE got = None
            /\ (/\ RawField("podcmp") \in {Missing, JInt(-1)}
                /\ RawField("podczzas") = JInt(600)
                /\ RawField("podczdo") = JInt(1200))
               => got = <<"float", 50 * Scale>>
            /\ (/\ RawField("podcmp") \in {Missing, JInt(-1)}
                /\ RawField("podczdo") = JInt(0))
               => got = None

C24_Witness ==
    /\ Read
    /\ RawField("podcmp") = JInt(-1)
    /\ RawField("podczzas") = JInt(100)
    /\ RawField("podczdo") = JInt(300)
    /\ d_view.hopper_level_percent = <<"float", 3330>>

\* C25: the fuel consumption is runtime / 60 * rate / 1000 to the nearest
\* hundredth when the snapshot has the feeder runtime (podcz) and a rate
\* (podgmin) above 0, and None in every other case, so with a rate of 0.
\* podcz = 120, podgmin = 300 give 0.6.
C25_FuelConsumption ==
    Read =>
        LET runtime == d_data.feeder_time_s
            rate == d_data.feeder_g_per_min
            got == d_view.fuel_consumption_kg
        IN  /\ IF runtime # None /\ rate # None /\ rate[2] > 0
               THEN /\ got # None
                    /\ got[1] = "float"
                    /\ 2 * Abs(got[2] * (Scale * 60 * 1000) - runtime[2] * rate[2])
                           <= Scale * 60 * 1000
               ELSE got = None
            /\ (RawField("podcz") = JInt(120) /\ RawField("podgmin") = JInt(300))
               => got = <<"float", 60>>
            /\ RawField("podgmin") = JInt(0) => got = None
            /\ RawField("podcz") = Missing => got = None

C25_Witness ==
    /\ Read
    /\ RawField("podcz") = JInt(120)
    /\ RawField("podgmin") = JInt(300)
    /\ d_view.fuel_consumption_kg = <<"float", 60>>

\* "{h}h {m}m"
HoursMinutes(h, m) == IntStr(h) \o <<"h", " ">> \o IntStr(m) \o <<"m">>

\* the uptime string of t seconds: the hours and minutes are the only ones
\* with 0 <= m <= 59 and 3600 * h + 60 * m <= t < 3600 * h + 60 * m + 60
IsUptimeOf(str, t) ==
    \E h \in 0..(t \div 3600), m \in 0..59 :
        /\ 3600 * h + 60 * m <= t
        /\ t < 3600 * h + 60 * m + 60
        /\ h = t \div 3600
        /\ m = (t % 3600) \div 60
        /\ str = HoursMinutes(h, m)

\* C26 as stated: for a non-negative integer uptime t, uptime_formatted is
\* "{h}h {m}m" with h = t div 3600 and m = (t mod 3600) div 60 (3665 gives
\* "1h 1m", 0 gives "0h 0m"), and it is None when the time field is
\* missing or is not an integer.
C26_NoneUnlessInteger ==
    Read =>
        LET raw == RawField("time")
            got == d_view.uptime_formatted
        IN  /\ (IsA(raw, "int") /\ raw.int >= 0) => IsUptimeOf(got, raw.int)
            /\ raw = JInt(3665) => got = <<"1", "h", " ", "1", "m">>
            /\ raw = JInt(0) => got = <<"0", "h", " ", "0", "m">>
            /\ ~IsA(raw, "int") => got = None

\* C26: for a non-negative integer uptime t, uptime_formatted is
\* "{h}h {m}m" with h = t div 3600 and m = (t mod 3600) div 60 (3665 gives
\* "1h 1m", 0 gives "0h 0m"); it is None when the time field is missing,
\* null or a value int() does not convert (a non-numeric string, a
\* container); a float is cut to its whole seconds and a string of digits
\* is read as the integer, so 3665.7 and "3665" give "1h 1m" too.
C26_UptimeFormatted ==
    Read =>
        LET raw == RawField("time")
            got == d_view.uptime_formatted
        IN  /\ (IsA(raw, "int") /\ raw.int >= 0) => IsUptimeOf(got, raw.int)
            /\ raw = JInt(3665) => got = <<"1", "h", " ", "1", "m">>
            /\ raw = JInt(0) => got = <<"0", "h", " ", "0", "m">>
            /\ (raw \in {Missing, JNull} \/ NonNumeric(raw)) => got = None
            /\ raw = JStr(<<"1.5">>) => got = None
            /\ (IsA(raw, "float") /\ raw.float >= 0)
               => IsUptimeOf(got, raw.float \div Scale)
            /\ raw = JStr(<<"3665">>) => got = <<"1", "h", " ", "1", "m">>

C26_Witness ==
    /\ Read
    /\ RawField("time") = JFloat(366570)
    /\ d_data.uptime_seconds = <<"int", 3665>>
    /\ d_view.uptime_formatted = <<"1", "h", " ", "1", "m">>

\* the value converts to an integer other than 0
ConvertsToNonZero(v) ==
    \/ IsA(v, "int") /\ v.int # 0
    \/ IsA(v, "float") /\ Abs(v.float) >= Scale
    \/ v = JBool(TRUE)
    \/ v \in {JStr(<<"1">>), JStr(<<"-1">>)}

\* C27: each of the flags pump_co, pump_cwu1, pump_cwu2, circulation,
\* feeder, thermostat and alarm is true exactly when its status field
\* converts to an integer other than 0: it is false for 0, for a missing
\* field and for a value the conversion refuses (co = 1 is true, co = 0 and
\* co = "x" are false).
C27_FlagsFromIntegers ==
    Built =>
        /\ \A k \in FlagFields :
              d_data[FieldOf[k]] = ConvertsToNonZero(RawField(k))
        /\ RawField("co") = JInt(1) => d_data.pump_co = TRUE
        /\ RawField("co") \in {JInt(0), JStr(<<"x">>), Missing}
           => d_data.pump_co = FALSE

C27_Witness ==
    /\ Built
    /\ RawField("co") = JStr(<<"x">>)
    /\ d_data.pump_co = FALSE
    /\ RawField("al") = JStr(<<"x">>)
    /\ RawField("cwu1") = JInt(0)
    /\ d_data.alarm = FALSE


(***************************************************************************)
(* The optimistic state of a switch and of a select (switch.py, select.py) *)
(***************************************************************************)

\* switch.COMMAND_DELAY, select.COMMAND_DELAY
COMMAND_DELAY == 3

\* _optimistic_state of the switch (a bool) and options_list of
\* select_co_tryb, as the strings Python prints
SwitchValues == {"True", "False"}
SelectOptions == {"ZIMA", "LATO"}
ValuesOf(ent) == IF ent = "switch" THEN SwitchValues ELSE SelectOptions

\* what the client gives a command: True, False or an exception
CommandResults == {"True", "False", "raised"}

\* LucjanSwitch.is_on
is_on(optimistic_state, snap) ==
    IF optimistic_state # "None" THEN optimistic_state ELSE snap

\* LucjanSelect.current_option
current_option(optimistic_value, snap) ==
    IF optimistic_value # "None" THEN optimistic_value
    ELSE IF snap \in SelectOptions THEN snap
    ELSE IF snap # "unknown" THEN snap
    ELSE "None"

\* the state the entity reports
StateOf(ent, optimistic, snap) ==
    IF ent = "switch" THEN is_on(optimistic, snap)
    ELSE current_option(optimistic, snap)

\* the override after the command, never cleared
OptimisticAfter_Keep(optimistic, success) == optimistic

\* the override after the command: None at once when the client gave
\* False, kept when it gave True; an exception leaves the method before
\* any assignment
OptimisticAfter(optimistic, success) ==
    IF success = "False" THEN "None" ELSE optimistic

\* where the method goes after the command
AfterCommand(success) ==
    IF success = "True" THEN "sleep"
    ELSE IF success = "False" THEN "done"
    ELSE "raised"

InitEnt ==
    /\ file = <<>>
    /\ ActOff
    /\ ClientIdle
    /\ DataOff
    /\ TextOff
    /\ PollOff
    /\ HttpOff
    /\ e_pc = [c \in Calls |-> "idle"]
    /\ e_ent = [c \in Calls |-> "none"]
    /\ e_target = [c \in Calls |-> "None"]
    /\ e_res = [c \in Calls |-> "none"]
    /\ e_opt = [e \in Entities |-> "None"]
    /\ e_dev \in [Entities -> SwitchValues \cup SelectOptions]
    /\ \A e \in Entities : e_dev[e] \in ValuesOf(e)
    /\ e_snap = e_dev
    /\ e_shown = [e \in Entities |-> StateOf(e, "None", e_dev[e])]
    /\ e_cmds = {}
    /\ e_refresh = {}
    /\ e_timer = [c \in Calls |-> 0]

\* the first lines of async_turn_on, async_turn_off and
\* async_select_option: set the override, write the state, then call the
\* client, which suspends the method
Invoke(c, ent, v) ==
    /\ e_pc[c] = "idle"
    /\ e_pc' = [e_pc EXCEPT ![c] = "command"]
    /\ e_ent' = [e_ent EXCEPT ![c] = ent]
    /\ e_target' = [e_target EXCEPT ![c] = v]
    /\ e_opt' = [e_opt EXCEPT ![ent] = v]
    /\ e_shown' = [e_shown EXCEPT ![ent] = StateOf(ent, v, e_snap[ent])]
    /\ UNCHANGED <<e_res, e_snap, e_dev, e_cmds, e_refresh, e_timer>>
    /\ UNCHANGED <<clientVars, textVars, pollVars, httpVars, dataVars,
                   actVars>>

async_turn_on(c) == Invoke(c, "switch", "True")

async_turn_off(c) == Invoke(c, "switch", "False")

async_select_option(c) == \E option \in SelectOptions : Invoke(c, "select", option)

\* success = await ...: the client's answer.  False clears the override
\* and writes the state; True starts asyncio.sleep(COMMAND_DELAY).  What
\* the client answers does not tell whether the device took the value.
CommandReturns(c) ==
    /\ e_pc[c] = "command"
    /\ \E success \in CommandResults, applied \in BOOLEAN :
         LET ent == e_ent[c]
             opt == OptimisticAfter(e_opt[ent], success)
         IN  /\ e_res' = [e_res EXCEPT ![c] = success]
             /\ e_pc' = [e_pc EXCEPT ![c] = AfterCommand(success)]
             /\ e_cmds' = e_cmds \cup {<<c, ent, e_target[c]>>}
             /\ e_dev' = IF applied THEN [e_dev EXCEPT ![ent] = e_target[c]]
                         ELSE e_dev
             /\ e_opt' = [e_opt EXCEPT ![ent] = opt]
             /\ e_shown' = IF success = "False"
                           THEN [e_shown EXCEPT
                                   ![ent] = StateOf(ent, opt, e_snap[ent])]
                           ELSE e_shown
             /\ e_timer' = [e_timer EXCEPT
                              ![c] = IF success = "True" THEN COMMAND_DELAY
                                     ELSE 0]
    /\ UNCHANGED <<e_ent, e_target, e_snap, e_refresh>>
    /\ UNCHANGED <<clientVars, textVars, pollVars, httpVars, dataVars,
                   actVars>>

\* a second passes for every method in asyncio.sleep
Tick ==
    /\ \E c \in Calls : e_pc[c] = "sleep" /\ e_timer[c] > 0
    /\ e_timer' = [c \in Calls |->
                     IF e_pc[c] = "sleep" /\ e_timer[c] > 0
                     THEN e_timer[c] - 1 ELSE e_timer[c]]
    /\ UNCHANGED <<e_pc, e_ent, e_target, e_res, e_opt, e_shown, e_snap,
                   e_dev, e_cmds, e_refresh>>
    /\ UNCHANGED <<clientVars, textVars, pollVars, httpVars, dataVars,
                   actVars>>

\* after the sleep: clear the override and
\* await self.coordinator.async_request_refresh()
Wake(c) ==
    /\ e_pc[c] = "sleep"
    /\ e_timer[c] = 0
    /\ e_opt' = [e_opt EXCEPT ![e_ent[c]] = "None"]
    /\ e_refresh' = e_refresh \cup {c}
    /\ e_pc' = [e_pc EXCEPT ![c] = "done"]
    /\ UNCHANGED <<e_ent, e_target, e_res, e_shown, e_snap, e_dev, e_cmds,
                   e_timer>>
    /\ UNCHANGED <<clientVars, textVars, pollVars, httpVars, dataVars,
                   actVars>>

\* a poll of the coordinator gives the entity a new snapshot; the entity
\* writes its state.  The select reads "unknown" when the poll had no config.
CoordinatorUpdate(ent) ==
    /\ \E snap \in {e_dev[ent]} \cup (IF ent = "select" THEN {"unknown"} ELSE {}) :
         /\ snap # e_snap[ent]
         /\ e_snap' = [e_snap EXCEPT ![ent] = snap]
         /\ e_shown' = [e_shown EXCEPT ![ent] = StateOf(ent, e_opt[ent], snap)]
    /\ UNCHANGED <<e_pc, e_ent, e_target, e_res, e_opt, e_dev, e_cmds,
                   e_refresh, e_timer>>
    /\ UNCHANGED <<clientVars, textVars, pollVars, httpVars, dataVars,
                   actVars>>

NextEnt ==
    \/ \E c \in Calls : async_turn_on(c)
    \/ \E c \in Calls : async_turn_off(c)
    \/ \E c \in Calls : async_select_option(c)
    \/ \E c \in Calls : CommandReturns(c)
    \/ Tick
    \/ \E c \in Calls : Wake(c)
    \/ \E ent \in Entities : CoordinatorUpdate(ent)

SpecEnt == InitEnt /\ [][NextEnt]_vars


(***************************************************************************)
(* Properties of the optimistic state                                      *)
(***************************************************************************)

\* the call is between its invocation and its end
Pending(c) == e_pc[c] \in {"command", "sleep"}

\* a step of call c, by where the call was and where it is
Invoked(c) == e_pc[c] = "idle" /\ e_pc'[c] = "command"
Answered(c, success) == e_pc[c] = "command" /\ e_res'[c] = success
Woken(c) == e_pc[c] = "sleep" /\ e_pc'[c] # "sleep"

\* the steps of one service call on a switch or a select
OptimisticSteps ==
    /\ \A c \in Calls :
          LET ent == e_ent'[c]
          IN  /\ Invoked(c) =>
                    /\ e_opt'[ent] = e_target'[c]
                    /\ e_shown'[ent] = e_target'[c]
                    /\ e_cmds' = e_cmds
              /\ Answered(c, "False") =>
                    /\ e_opt'[ent] = "None"
                    /\ e_shown'[ent] = StateOf(ent, "None", e_snap[ent])
                    /\ e_refresh' = e_refresh
                    /\ e_pc'[c] = "done"
              /\ Answered(c, "True") =>
                    /\ e_opt' = e_opt
                    /\ e_pc'[c] = "sleep"
                    /\ e_timer'[c] = COMMAND_DELAY
                    /\ e_refresh' = e_refresh
              /\ Woken(c) =>
                    /\ e_timer[c] = 0
                    /\ e_opt'[ent] = "None"
                    /\ e_refresh' = e_refresh \cup {c}
                    /\ e_pc'[c] = "done"
    /\ \A ent \in Entities :
          e_opt'[ent] # e_opt[ent] =>
              \E c \in Calls :
                  /\ e_ent'[c] = ent
                  /\ \/ Invoked(c) /\ e_opt'[ent] = e_target'[c]
                     \/ Answered(c, "False") /\ e_opt'[ent] = "None"
                     \/ Woken(c) /\ e_opt'[ent] = "None"
    /\ \A c \in e_refresh' : e_res'[c] = "True"

\* C29: a switch or select goes Idle -> Pending(value) -> Idle.  The call
\* sets the override and writes it to the state before any device command
\* is issued; when the client answers False the call clears the override
\* in the same step, the entity shows the snapshot's value again and no
\* refresh is requested; when it answers True the call leaves the override
\* alone for COMMAND_DELAY seconds, then clears it and requests a refresh.
\* The override changes in no other step.
C29_OptimisticStateMachine == [][OptimisticSteps]_vars

C29_Witness ==
    /\ e_pc = [c \in Calls |-> "done"]
    /\ e_ent[1] = "switch"
    /\ e_res[1] = "True"
    /\ e_ent[2] = "select"
    /\ e_res[2] = "False"
    /\ e_refresh = {1}
    /\ e_opt = [e \in Entities |-> "None"]

\* C30: while a call on the switch is pending, is_on is the value that call
\* sets, whatever other calls on the switch do meanwhile: no other call
\* replaces the override and none clears it when it ends.
C30_PendingShowsTarget ==
    \A c \in Calls :
        (e_ent[c] = "switch" /\ Pending(c))
            => is_on(e_opt["switch"], e_snap["switch"]) = e_target[c]

\* C38: the fuel consumption is never negative: for every raw status
\* mapping, also one whose podcz is negative, the derived
\* fuel_consumption_kg is None or a number >= 0.
C38_FuelNeverNegative ==
    Read =>
        \/ d_view.fuel_consumption_kg = None
        \/ d_view.fuel_consumption_kg[2] >= 0

\* C33: a successful replacement is visible to the parser: when
\* _replace_config_param(text, k, v) produced a text, parsing that text maps
\* k to v, also when k is on more than one line of the text.
C33_ReplacementVisible ==
    (t_pc = "parsed" /\ t_new # None) =>
        /\ t_param \in DOMAIN t_cfg[2]
        /\ t_cfg[2][t_param] = t_value

\* C32: in async_set_co_circuit the CO_TRYB write is issued only after the
\* switch to manual mode succeeded: when the first step (the write of
\* PIEC_TRYB=RECZNY) failed, the call issues no CO_TRYB write.
C32_NoCoWriteAfterFailedManual ==
    op[CoTask] = "set_co_circuit" =>
        LET w == writes[CoTask]
        IN  (Len(w) >= 1 /\ w[1].res \notin {"True", "pending"}) =>
                \A i \in 1..Len(w) : w[i].param # <<"CO_TRYB">>

(***************************************************************************)
(* Termination of the switch and select commands                           *)
(***************************************************************************)

\* the event loop resumes a method whose awaited call has completed: every
\* client call gets its answer (each HTTP call ends, with a response, an
\* error or the timeout), every asyncio.sleep ends
EntFairness ==
    /\ \A c \in Calls : WF_vars(CommandReturns(c))
    /\ WF_vars(Tick)
    /\ \A c \in Calls : WF_vars(Wake(c))

SpecEntFair == InitEnt /\ [][NextEnt]_vars /\ EntFairness

\* the call has left its method: by a return or by an exception
Finished(c) == e_pc[c] \in {"done", "raised"}

\* C31: every switch or select command returns its entity to Idle: once
\* the invocations on an entity have finished, with whatever outcome of
\* the device command, the optimistic override of the entity is None.
C31_FinishedMeansIdle ==
    \A ent \in Entities :
        (/\ \E c \in Calls : e_ent[c] = ent /\ Finished(c)
         /\ \A c \in Calls : e_ent[c] = ent => Finished(c))
            => e_opt[ent] = "None"

(***************************************************************************)
(* Availability of the manual-only controls                                *)
(***************************************************************************)

\* LucjanSwitch.available and LucjanNumber.available (the same body):
\* super_available is CoordinatorEntity.available, the success of the last
\* poll
available(super_available, manual_only, lucjan_data) ==
    IF ~super_available THEN FALSE
    ELSE IF manual_only /\ lucjan_data # NoData
              /\ lucjan_data.boiler_mode = <<"AUTO">>
         THEN FALSE
         ELSE TRUE

\* the mode the device is in: PIEC_TRYB of its config.txt
DeviceMode == DictGet(_parse_config(file), <<"PIEC_TRYB">>, unknown)

\* a poll cycle ends with a snapshot in this step
PollSucceeds == poll_pc = "config" /\ poll_pc' = "idle" /\ poll_res' = "ok"

\* the step ends a successful poll of a device in AUTO mode: the
\* manual-only controls must report unavailable
UnavailableInAuto ==
    (PollSucceeds /\ DeviceMode = <<"AUTO">>) => ~available(TRUE, TRUE, data')

\* C37: the manual-only controls (pump and feeder switches, fan-power
\* number) are unavailable whenever the device is in AUTO mode: after
\* every successful poll taken while config.txt has PIEC_TRYB=AUTO they
\* report unavailable, also when the config fetch of that poll failed.
C37_ManualOnlyUnavailableInAuto == [][UnavailableInAuto]_vars

(***************************************************************************)
(* The actions of the controllable entities, over the device: LucjanSwitch *)
(* (switch_pump_co), LucjanSelect (select_co_tryb), LucjanNumber           *)
(* (fan_power_control, piec_t_max), LucjanBoilerClimate, LucjanCWUClimate  *)
(* and LucjanButton (alarm_reset).  One service call runs, with no other   *)
(* writer: it makes its client calls, sleeps and requests a refresh.       *)
(***************************************************************************)

ActEntities ==
    {"switch", "select", "number_fan", "number_cfg", "climate_co",
     "climate_cwu", "button"}

\* the entities that keep an optimistic override
Optimistic == {"switch", "select"}

\* a config.txt with one line for each key, in the two delimiter forms
File_D ==
    << "PIEC_TRYB", "=", "RECZNY", "\n",
       "CO_TRYB", "=", "ZIMA", "\n",
       "PIEC_ZADANA", " ", "=", " ", "55", "\n",
       "CWU_ZADANA", "=", "55", "\n",
       "PIEC_T_MAX", "=", "60", "\n" >>

ActFiles == {File_D, File_B}

\* the keys of a config text are unique: no key is on two pair lines
UniqueKeys(text) ==
    \A k \in DOMAIN _parse_config(text) : Cardinality(PairLines(text, k)) <= 1

\* the values a service call passes for the temperature or the number, in
\* hundredths
ServiceValues == {5500, 5960}

\* str(n) for the integers the actions write
PyStrInt(n) == CHOOSE s \in DOMAIN IntOf : IntOf[s] = n

\* str(int(round(value)))
RoundedStr(v) == PyStrInt(Round(v, Scale))

\* the runtime variables of the device when the integration starts
Runtime_A ==
    [ PIEC_ZADANA |-> "55", CWU_ZADANA |-> "55", OUT_WENTYLATOR |-> "0",
      OUT_POMPACO |-> "0" ]

\* a client call of an action
ClientCall(fn, p, v) == [fn |-> fn, param |-> p, value |-> v, res |-> "pending"]

\* the client calls an action makes, in the order it makes them
CallsOf(ent, v) ==
    CASE ent = "switch" ->
           << ClientCall("set_variable", "OUT_POMPACO",
                         IF v = "True" THEN "1" ELSE "0") >>
      [] ent = "select" -> << ClientCall("set_config_param", "CO_TRYB", v) >>
      [] ent = "number_fan" ->
           << ClientCall("set_variable", "OUT_WENTYLATOR", v) >>
      [] ent = "number_cfg" ->
           << ClientCall("set_config_param", "PIEC_T_MAX", v) >>
      [] ent = "climate_co" ->
           << ClientCall("set_variable", "PIEC_ZADANA", v),
              ClientCall("set_config_param", "PIEC_ZADANA", v) >>
      [] ent = "climate_cwu" ->
           << ClientCall("set_variable", "CWU_ZADANA", v),
              ClientCall("set_config_param", "CWU_ZADANA", v) >>
      [] OTHER -> << ClientCall("alarm_reset", "", "") >>

\* what the method does when its i-th client call gave r: an exception
\* leaves the method; the switch and the select test the result; the
\* number, the climates and the button do not read it
AfterClient(ent, i, r) ==
    IF r \notin {"True", "False"} THEN "raised"
    ELSE IF ent \in Optimistic
         THEN IF r = "True" THEN "sleep" ELSE "error"
    ELSE IF ent \in {"climate_co", "climate_cwu"}
         THEN IF i = 1 THEN "call" ELSE "sleep"
    ELSE IF ent = "button" THEN "refresh"
    ELSE "sleep"

\* the entity's state after a first refresh that fetched status and config
InitAct ==
    /\ file \in ActFiles
    /\ thermos = Thermos_A
    /\ ClientIdle
    /\ TextOff
    /\ HttpOff
    /\ DataOff
    /\ EntOff
    /\ flow_pc = "created"
    /\ flow_out = "200"
    /\ flow_errors = "none"
    /\ flow_entry = TRUE
    /\ setup_pc = "ready"
    /\ runtime_data = TRUE
    /\ platforms = TRUE
    /\ poll_pc = "idle"
    /\ poll_thermos = thermos
    /\ poll_config = _parse_config(file)
    /\ poll_reqs =
         << [req |-> "GET /thermos.json", outcome |-> "200", raised |-> "none"],
            [req |-> "GET /config.txt", outcome |-> "200", raised |-> "none"] >>
    /\ poll_res = "ok"
    /\ data = LucjanData(thermos, _parse_config(file))
    /\ prev = NoData
    /\ a_pc = "idle"
    /\ a_ent = "none"
    /\ a_value = "None"
    /\ a_calls = <<>>
    /\ a_scp = "none"
    /\ a_upload = None
    /\ a_opt = [e \in Optimistic |-> "None"]
    /\ a_trace = <<>>
    /\ a_run = Runtime_A

\* what no step of an entity action changes
ActFrame ==
    UNCHANGED <<pc, op, param, value, enabled, cstep, fetched, upload, ret,
                reqs, writes, before, overlapped, uploaders, thermos, flow_pc,
                flow_out, flow_errors, flow_entry, setup_pc, runtime_data,
                platforms, textVars, httpVars, dataVars, entVars>>

\* no poll cycle step
PollFrame ==
    UNCHANGED <<poll_pc, poll_thermos, poll_config, poll_reqs, poll_res, data,
                prev>>

\* a method starts on entity ent with value v: the switch and the select
\* set their override, then the first client call is awaited
ActInvoke(ent, v) ==
    /\ a_pc = "idle"
    /\ a_pc' = "client"
    /\ a_ent' = ent
    /\ a_value' = v
    /\ a_calls' = << CallsOf(ent, v)[1] >>
    /\ a_scp' = IF CallsOf(ent, v)[1].fn = "set_config_param" THEN "fetch"
                ELSE "none"
    /\ a_upload' = None
    /\ a_opt' = IF ent \in Optimistic THEN [a_opt EXCEPT ![ent] = v] ELSE a_opt
    /\ a_trace' = <<>>
    /\ UNCHANGED <<file, a_run>>
    /\ PollFrame
    /\ ActFrame

\* LucjanSwitch.async_turn_on / async_turn_off of switch_pump_co
LucjanSwitch_turn == \E v \in SwitchValues : ActInvoke("switch", v)

\* LucjanSelect.async_select_option of select_co_tryb
LucjanSelect_select_option == \E o \in SelectOptions : ActInvoke("select", o)

\* LucjanNumber.async_set_native_value: int_value = int(round(value))
async_set_native_value ==
    \E ent \in {"number_fan", "number_cfg"}, v \in ServiceValues :
        ActInvoke(ent, RoundedStr(v))

\* async_set_temperature of the two climates with a temperature:
\* temp_int = int(round(temp))
async_set_temperature ==
    \E ent \in {"climate_co", "climate_cwu"}, temp \in ServiceValues :
        ActInvoke(ent, RoundedStr(temp))

\* async_set_temperature without a temperature: the method does nothing
async_set_temperature_None ==
    /\ a_pc = "idle"
    /\ a_pc' = "done"
    /\ a_ent' \in {"climate_co", "climate_cwu"}
    /\ a_value' = "None"
    /\ a_calls' = <<>>
    /\ a_scp' = "none"
    /\ a_upload' = None
    /\ a_trace' = <<>>
    /\ UNCHANGED <<file, a_opt, a_run>>
    /\ PollFrame
    /\ ActFrame

\* LucjanButton.async_press
async_press == ActInvoke("button", "None")

\* the client call the method awaits
Awaited == a_calls[Len(a_calls)]

\* the awaited client call ends with r (a result, or the exception it lets
\* through) and the method goes on to its next await
ActReturn(r) ==
    LET i == Len(a_calls)
        done == [a_calls EXCEPT ![i].res = r]
        nxt == AfterClient(a_ent, i, r)
        call == CallsOf(a_ent, a_value)[i + 1]
    IN  /\ a_calls' = IF nxt = "call" THEN Append(done, call) ELSE done
        /\ a_scp' = IF nxt = "call" /\ call.fn = "set_config_param"
                    THEN "fetch" ELSE "none"
        /\ a_pc' = CASE nxt = "call" -> "client"
                     [] nxt = "sleep" -> "sleep"
                     [] nxt = "refresh" -> "refresh"
                     [] nxt = "error" -> "done"
                     [] OTHER -> "raised"
        /\ a_opt' = IF nxt = "error" THEN [a_opt EXCEPT ![a_ent] = "None"]
                    ELSE a_opt
        /\ a_trace' = IF nxt \in {"sleep", "refresh", "error"}
                      THEN Append(a_trace, nxt) ELSE a_trace

\* async_set_variable and the system commands: one _get in a try; a 200
\* to /setNAME=VALUE means the device took the value
ActRuntime ==
    /\ a_pc = "client"
    /\ Awaited.fn # "set_config_param"
    /\ \E o \in Outcomes :
         LET e == Raised(o)
         IN  /\ a_run' = IF e = "none" /\ Awaited.fn = "set_variable"
                         THEN [a_run EXCEPT ![Awaited.param] = Awaited.value]
                         ELSE a_run
             /\ ActReturn(IF e = "none" THEN "True" ELSE Except(e))
    /\ UNCHANGED <<file, a_ent, a_value, a_upload>>
    /\ PollFrame
    /\ ActFrame

\* async_set_config_param: raw_config = await self.async_get_config_raw(),
\* then the replacement
ActFetch ==
    /\ a_pc = "client"
    /\ a_scp = "fetch"
    /\ \E o \in Outcomes, body_ok \in BOOLEAN :
         LET e == GetConfigRaw(o, body_ok)
             new_config == _replace_config_param(file, <<Awaited.param>>,
                                                 <<Awaited.value>>)
             nxt == AfterFetch(e, new_config)
         IN  IF nxt = "put"
             THEN /\ a_scp' = "put"
                  /\ a_upload' = new_config
                  /\ UNCHANGED <<a_pc, a_calls, a_opt, a_trace>>
             ELSE /\ ActReturn(nxt)
                  /\ UNCHANGED a_upload
    /\ UNCHANGED <<file, a_ent, a_value, a_run>>
    /\ PollFrame
    /\ ActFrame

\* async_set_config_param: await self._put("/upload/config.txt", ...)
ActPut ==
    /\ a_pc = "client"
    /\ a_scp = "put"
    /\ \E o \in Outcomes :
         LET e == Raised(o)
             nxt == AfterPut(e)
         IN  /\ file' = IF e = "none" THEN a_upload ELSE file
             /\ IF nxt = "reload"
                THEN /\ a_scp' = "reload"
                     /\ UNCHANGED <<a_pc, a_calls, a_opt, a_trace>>
                ELSE ActReturn(nxt)
    /\ UNCHANGED <<a_ent, a_value, a_upload, a_run>>
    /\ PollFrame
    /\ ActFrame

\* async_set_config_param: await self._get("/configreload")
ActReload ==
    /\ a_pc = "client"
    /\ a_scp = "reload"
    /\ \E o \in Outcomes : ActReturn(AfterReload(Raised(o)))
    /\ UNCHANGED <<file, a_ent, a_value, a_upload, a_run>>
    /\ PollFrame
    /\ ActFrame

\* await asyncio.sleep(COMMAND_DELAY) ends: the switch and the select clear
\* their override; await self.coordinator.async_request_refresh()
ActWake ==
    /\ a_pc = "sleep"
    /\ a_pc' = "refresh"
    /\ a_opt' = IF a_ent \in Optimistic THEN [a_opt EXCEPT ![a_ent] = "None"]
                ELSE a_opt
    /\ a_trace' = Append(a_trace, "refresh")
    /\ UNCHANGED <<file, a_ent, a_value, a_calls, a_scp, a_upload, a_run>>
    /\ PollFrame
    /\ ActFrame

\* the requested refresh starts a poll cycle
ActRefreshStart ==
    /\ a_pc = "refresh"
    /\ poll_pc = "idle"
    /\ BeginCycle
    /\ a_pc' = "polling"
    /\ UNCHANGED <<file, a_ent, a_value, a_calls, a_scp, a_upload, a_opt,
                   a_trace, a_run>>
    /\ ActFrame

\* the cycle has ended, with a snapshot or with UpdateFailed (which the
\* coordinator logs): async_request_refresh returns and so does the method
ActRefreshEnd ==
    /\ a_pc = "polling"
    /\ poll_pc = "idle"
    /\ a_pc' = "done"
    /\ UNCHANGED <<file, a_ent, a_value, a_calls, a_scp, a_upload, a_opt,
                   a_trace, a_run>>
    /\ PollFrame
    /\ ActFrame

NextAct ==
    \/ LucjanSwitch_turn
    \/ LucjanSelect_select_option
    \/ async_set_native_value
    \/ async_set_temperature
    \/ async_set_temperature_None
    \/ async_press
    \/ ActRuntime
    \/ ActFetch
    \/ ActPut
    \/ ActReload
    \/ ActWake
    \/ ActRefreshStart
    \/ PollThermos
    \/ PollConfig
    \/ ActRefreshEnd

SpecAct == InitAct /\ [][NextAct]_vars

(***************************************************************************)
(* Properties of the entity actions                                        *)
(***************************************************************************)

\* the client returned False to the i-th call of the action
ReturnedFalse(i) == i \in 1..Len(a_calls) /\ a_calls[i].res = "False"

\* the method stopped at the failed call i and reported it: it logged the
\* error and returned, with no further client call, no sleep and no refresh
StoppedAt(i) ==
    /\ Len(a_calls) = i
    /\ a_trace = <<"error">>
    /\ a_pc = "done"

\* C36: a failed command is surfaced at the point of invocation for every
\* controllable entity: whenever the client returns False to a switch,
\* select, number, climate or button action, the action reports the failure
\* and does not go on along its success path (sleep, then refresh).
C36_FailureSurfaced ==
    \A i \in 1..Len(a_calls) : ReturnedFalse(i) => StoppedAt(i)

\* the action is async_set_temperature with a temperature
SetsTemperature == a_ent \in {"climate_co", "climate_cwu"} /\ a_value # "None"

\* the parameter of the climate: PIEC_ZADANA or CWU_ZADANA
Setpoint == IF a_ent = "climate_co" THEN "PIEC_ZADANA" ELSE "CWU_ZADANA"

\* the setpoint config.txt holds
Persisted == DictGet(_parse_config(file), <<Setpoint>>, unknown)

\* the runtime write comes first and the config write follows it whatever
\* it returned; there is no third client call
DualWriteOrder ==
    /\ Len(a_calls) \in 1..2
    /\ a_calls[1].fn = "set_variable"
    /\ a_calls[1].param = Setpoint
    /\ a_calls[1].value = a_value
    /\ a_calls[1].res \in {"pending", "True", "False"}
    /\ (a_calls[1].res = "pending") = (Len(a_calls) = 1)
    /\ Len(a_calls) = 2 =>
           /\ a_calls[2].fn = "set_config_param"
           /\ a_calls[2].param = Setpoint
           /\ a_calls[2].value = a_value

\* the call has ended its two writes: the runtime write succeeded, the
\* config write failed (False, or an exception)
RuntimeOnly ==
    /\ Len(a_calls) = 2
    /\ a_calls[1].res = "True"
    /\ a_calls[2].res \notin {"pending", "True"}

\* C35: async_set_temperature is a lenient dual write: it attempts the
\* runtime /set write first and then the config-file write, whatever the
\* first write returned, and rolls nothing back; so when the runtime write
\* succeeded and the config write failed, the call ends with the device's
\* runtime setpoint (the new value) and the persisted config setpoint in
\* disagreement.  The new value 60 is not the one persisted at the start.
C35_LenientDualWrite ==
    SetsTemperature =>
        /\ DualWriteOrder
        /\ (RuntimeOnly /\ a_value = "60") =>
               /\ a_run[Setpoint] = a_value
               /\ Persisted # <<a_value>>

\* current_fn of select_co_tryb (lambda data: data.co_mode), as the option
\* string the entity compares
current_fn(lucjan_data) ==
    IF Len(lucjan_data.co_mode) = 1 THEN lucjan_data.co_mode[1] ELSE ""

\* the select's write of the option returned True
SelectWritten ==
    /\ a_ent = "select"
    /\ Len(a_calls) = 1
    /\ a_calls[1].res = "True"

\* the refresh the action requested has run its cycle to the end
RefreshCompleted ==
    /\ a_pc \in {"polling", "done"}
    /\ poll_pc = "idle"
    /\ a_trace = <<"sleep", "refresh">>

\* that cycle fetched the status and the config
BothFetched ==
    /\ poll_res = "ok"
    /\ Len(poll_reqs) = 2
    /\ poll_reqs[1].raised = "none"
    /\ poll_reqs[2].raised = "none"

====
